---- MODULE Spec2Model ----
(***************************************************************************)
(* A model of memson's in-memory document store (src/src/inmemdb.rs) and   *)
(* of its query engine (Query::exec: FROM -> WHERE -> SELECT), with the    *)
(* value algebra of src/src/json.rs and the row-scoped evaluators of       *)
(* src/src/apply.rs.  Spec runs commands against the store; ValueSpec      *)
(* calls the pure functions of json.rs and apply.rs on their own;          *)
(* StoreSpec evaluates command trees over the store; CodecSpec is one      *)
(* direction of a connection under the framing of src/src/codec.rs.        *)
(*                                                                         *)
(* A serde_json Value is a tagged record [t, v]:                           *)
(*   t = "null" | "bool" | "int" | "float" | "str" | "arr" | "obj"         *)
(* an Array carries a sequence of Values, an Object a function from field  *)
(* names to Values (serde_json's Map).  A Rust Result is [kind, val] with  *)
(* kind = "ok" | "err"; a panic (unimplemented!(), todo!(), unwrap() on    *)
(* None or Err) of the evaluating thread is the third outcome,             *)
(* kind = "panic".                                                         *)
(***************************************************************************)
EXTENDS Integers, Sequences, FiniteSets, TLC

VARIABLES
    cache,  \* InMemDb.cache: the store, a map from key to Value
    pc,     \* "idle": waiting for a command; "done": a command was evaluated
    last,   \* the command evaluated last
    res,    \* what its evaluation returned
    dst,    \* the bytes an Encoder has written that are still on their way
    src,    \* the buffer of the Decoder at the other end
    sent,   \* the messages encoded so far
    items   \* the messages decoded so far

(* The connection, which the store and the pure functions leave alone *)
codec == <<dst, src, sent, items>>

vars == <<cache, pc, last, res, dst, src, sent, items>>

-----------------------------------------------------------------------------
(* Values *)

JNull == [t |-> "null", v |-> 0]

JBool(b) == [t |-> "bool", v |-> b]

JInt(n) == [t |-> "int", v |-> n]

JStr(s) == [t |-> "str", v |-> s]

JArr(s) == [t |-> "arr", v |-> s]

JObj(o) == [t |-> "obj", v |-> o]

EmptyObj == << >>

(* Option<T> *)
None == [some |-> FALSE]

Some(x) == [some |-> TRUE, v |-> x]

(* Result<T, Error>, and the panic of the evaluating thread *)
Ok(x) == [kind |-> "ok", val |-> x]

Err(e) == [kind |-> "err", val |-> [t |-> "error", v |-> e]]

Panic == [kind |-> "panic", val |-> [t |-> "error", v |-> "unimplemented"]]

(* serde_json Map operations *)
obj_has(o, k) == k \in DOMAIN o

obj_insert(o, k, x) == [f \in (DOMAIN o) \cup {k} |-> IF f = k THEN x ELSE o[f]]

obj_remove(o, k) == [f \in (DOMAIN o) \ {k} |-> o[f]]

obj_restrict(o, ks) == [f \in (DOMAIN o) \cap ks |-> o[f]]

-----------------------------------------------------------------------------
(* json.rs: arithmetic *)

(* A Number is an integer, [t |-> "int", v |-> n] (serde_json's PosInt and *)
(* NegInt within i64: Number::is_i64 holds), or a float,                   *)
(* [t |-> "float", v |-> <<n, d>>].  An f64 is the exact rational n/d in   *)
(* lowest terms with d > 0; a result that is not finite (a division by     *)
(* zero: inf, -inf, NaN) is <<n, 0>>.  Rounding is not modelled.           *)
RECURSIVE Gcd(_, _)
Gcd(a, b) == IF b = 0 THEN a ELSE Gcd(b, a % b)

Abs(n) == IF n < 0 THEN -n ELSE n

Sign(n) == IF n < 0 THEN -1 ELSE IF n = 0 THEN 0 ELSE 1

F64(n, d) ==
    IF d = 0 THEN <<Sign(n), 0>>
    ELSE LET g == Gcd(Abs(n), Abs(d))
         IN <<(Sign(d) * n) \div g, Abs(d) \div g>>

is_finite(q) == q[2] # 0

f64_add(a, b) == F64(a[1] * b[2] + b[1] * a[2], a[2] * b[2])

f64_sub(a, b) == F64(a[1] * b[2] - b[1] * a[2], a[2] * b[2])

f64_mul(a, b) == F64(a[1] * b[1], a[2] * b[2])

f64_div(a, b) == F64(a[1] * b[2], a[2] * b[1])

(* x > y of two finite f64 *)
f64_gt(a, b) == a[1] * b[2] > b[1] * a[2]

JFloat(q) == [t |-> "float", v |-> q]

is_number(x) == x.t \in {"int", "float"}

(* Number::is_i64 *)
is_i64(x) == x.t = "int"

(* Number::as_f64: always Some for a Number *)
Number_as_f64(x) == IF x.t = "int" THEN <<x.v, 1>> ELSE x.v

(* Value::as_f64: None for a Value that is not a Number *)
Value_as_f64(x) == IF is_number(x) THEN Some(Number_as_f64(x)) ELSE None

(* Number::from_f64: None for a value that is not finite *)
Number_from_f64(q) == IF is_finite(q) THEN Some(JFloat(q)) ELSE None

(* Value::from(f64): Null for a value that is not finite *)
Json_from_f64(q) == IF is_finite(q) THEN JFloat(q) ELSE JNull

(* The panic of Option::unwrap on None and of Result::unwrap on Err *)
Unwrapped == [kind |-> "panic", val |-> [t |-> "error", v |-> "unwrap"]]

(* The panic of an arithmetic overflow in a build that checks for it *)
Overflowed == [kind |-> "panic", val |-> [t |-> "error", v |-> "overflow"]]

(* The number of pairs of lhs.iter().zip(rhs.iter()) *)
zip_len(lhs, rhs) == IF Len(lhs) < Len(rhs) THEN Len(lhs) ELSE Len(rhs)

(* A loop (or map and collect) that builds a Vec from the elements'        *)
(* outcomes, in order: the first element that fails (`?` on an Err, a      *)
(* panic) ends it with that outcome.                                       *)
collect(outs) ==
    IF \E i \in 1..Len(outs) : outs[i].kind # "ok"
    THEN outs[CHOOSE i \in 1..Len(outs) :
                /\ outs[i].kind # "ok"
                /\ \A j \in 1..(i - 1) : outs[j].kind = "ok"]
    ELSE Ok(JArr([i \in 1..Len(outs) |-> outs[i].val]))

(* Result::unwrap *)
unwrap(out) == IF out.kind = "ok" THEN out ELSE Unwrapped

(* json_add_nums: an i64 sum when both are i64, an f64 sum otherwise (the  *)
(* sum of two finite rationals is finite: from_f64's unwrap succeeds)      *)
json_add_nums(x, y) ==
    IF is_i64(x) /\ is_i64(y) THEN JInt(x.v + y.v)
    ELSE Number_from_f64(f64_add(Number_as_f64(x), Number_as_f64(y))).v

json_add_str(x, y) == Ok(JStr(x \o y))

add_str_val(x, y) == IF y.t = "str" THEN Ok(JStr(x \o y.v)) ELSE Err("BadType")

add_val_str(x, y) == IF x.t = "str" THEN Ok(JStr(x.v \o y)) ELSE Err("BadType")

add_str_arr(x, y) == collect([i \in 1..Len(y) |-> add_str_val(x, y[i])])

add_arr_str(lhs, rhs) == collect([i \in 1..Len(lhs) |-> add_val_str(lhs[i], rhs)])

(* json_add_arr_num that adds each element with json_add_nums *)
json_add_arr_num_kinded(x, y) ==
    collect([i \in 1..Len(x) |->
        IF is_number(x[i]) THEN Ok(json_add_nums(x[i], y)) ELSE Unwrapped])

(* json_add_arr_num: x.as_f64().unwrap() on every element *)
json_add_arr_num(x, y) ==
    collect([i \in 1..Len(x) |->
        IF Value_as_f64(x[i]).some
        THEN Ok(Json_from_f64(f64_add(Value_as_f64(x[i]).v, Number_as_f64(y))))
        ELSE Unwrapped])

RECURSIVE json_add(_, _)
(* json_add_arrs: json_add(x, y).unwrap() on every pair *)
json_add_arrs(lhs, rhs) ==
    collect([i \in 1..zip_len(lhs, rhs) |-> unwrap(json_add(lhs[i], rhs[i]))])

json_add(lhs, rhs) ==
    CASE lhs.t = "arr" /\ rhs.t = "arr" -> json_add_arrs(lhs.v, rhs.v)
      [] lhs.t = "arr" /\ is_number(rhs) -> json_add_arr_num(lhs.v, rhs)
      [] is_number(lhs) /\ rhs.t = "arr" -> json_add_arr_num(rhs.v, lhs)
      [] is_number(lhs) /\ is_number(rhs) -> Ok(json_add_nums(lhs, rhs))
      [] lhs.t = "str" /\ rhs.t = "str" -> json_add_str(lhs.v, rhs.v)
      [] lhs.t = "str" /\ rhs.t = "arr" -> add_str_arr(lhs.v, rhs.v)
      [] lhs.t = "arr" /\ rhs.t = "str" -> add_arr_str(lhs.v, rhs.v)
      [] OTHER -> Err("BadType")

json_sub_nums(x, y) == Ok(Json_from_f64(f64_sub(Number_as_f64(x), Number_as_f64(y))))

(* json_sub_arr_num, json_sub_num_arr: as_f64().unwrap() on every element *)
json_sub_arr_num(x, y) ==
    collect([i \in 1..Len(x) |->
        IF Value_as_f64(x[i]).some
        THEN Ok(Json_from_f64(f64_sub(Value_as_f64(x[i]).v, Number_as_f64(y))))
        ELSE Unwrapped])

json_sub_num_arr(x, y) ==
    collect([i \in 1..Len(y) |->
        IF Value_as_f64(y[i]).some
        THEN Ok(Json_from_f64(f64_sub(Number_as_f64(x), Value_as_f64(y[i]).v)))
        ELSE Unwrapped])

RECURSIVE json_sub(_, _)
(* json_sub_arrs: json_sub(x, y).unwrap() on every pair *)
json_sub_arrs(lhs, rhs) ==
    collect([i \in 1..zip_len(lhs, rhs) |-> unwrap(json_sub(lhs[i], rhs[i]))])

json_sub(lhs, rhs) ==
    CASE lhs.t = "arr" /\ rhs.t = "arr" -> json_sub_arrs(lhs.v, rhs.v)
      [] lhs.t = "arr" /\ is_number(rhs) -> json_sub_arr_num(lhs.v, rhs)
      [] is_number(lhs) /\ rhs.t = "arr" -> json_sub_num_arr(lhs, rhs.v)
      [] is_number(lhs) /\ is_number(rhs) -> json_sub_nums(lhs, rhs)
      [] OTHER -> Err("BadType")

mul_nums(x, y) == Ok(Json_from_f64(f64_mul(Number_as_f64(x), Number_as_f64(y))))

(* mul_vals: a pair of the zip of mul_arrs multiplies two Numbers only *)
mul_vals(x, y) == IF is_number(x) /\ is_number(y) THEN mul_nums(x, y) ELSE Err("BadType")

RECURSIVE mul_arr_num(_, _)
mul_val_num(x, y) ==
    CASE is_number(x) -> mul_nums(x, y)
      [] x.t = "arr" -> mul_arr_num(x.v, y)
      [] OTHER -> Err("BadType")

mul_arr_num(x, y) == collect([i \in 1..Len(x) |-> mul_val_num(x[i], y)])

mul_arrs(lhs, rhs) == collect([i \in 1..zip_len(lhs, rhs) |-> mul_vals(lhs[i], rhs[i])])

json_mul(lhs, rhs) ==
    CASE lhs.t = "arr" /\ rhs.t = "arr" -> mul_arrs(lhs.v, rhs.v)
      [] lhs.t = "arr" /\ is_number(rhs) -> mul_arr_num(lhs.v, rhs)
      [] is_number(lhs) /\ rhs.t = "arr" -> mul_arr_num(rhs.v, lhs)
      [] is_number(lhs) /\ is_number(rhs) -> mul_nums(lhs, rhs)
      [] OTHER -> Err("BadType")

div_nums(x, y) == Ok(Json_from_f64(f64_div(Number_as_f64(x), Number_as_f64(y))))

RECURSIVE div_arr_num(_, _)
div_val_num(x, y) ==
    CASE is_number(x) -> div_nums(x, y)
      [] x.t = "arr" -> div_arr_num(x.v, y)
      [] OTHER -> Err("BadType")

div_arr_num(x, y) == collect([i \in 1..Len(x) |-> div_val_num(x[i], y)])

RECURSIVE div_num_arr(_, _)
div_num_val(x, y) ==
    CASE is_number(y) -> div_nums(x, y)
      [] y.t = "arr" -> div_num_arr(x, y.v)
      [] OTHER -> Err("BadType")

div_num_arr(x, y) == collect([i \in 1..Len(y) |-> div_num_val(x, y[i])])

RECURSIVE json_div(_, _)
div_arrs(x, y) == collect([i \in 1..zip_len(x, y) |-> json_div(x[i], y[i])])

json_div(lhs, rhs) ==
    CASE lhs.t = "arr" /\ rhs.t = "arr" -> div_arrs(lhs.v, rhs.v)
      [] lhs.t = "arr" /\ is_number(rhs) -> div_arr_num(lhs.v, rhs)
      [] is_number(lhs) /\ rhs.t = "arr" -> div_num_arr(lhs, rhs.v)
      [] is_number(lhs) /\ is_number(rhs) -> div_nums(lhs, rhs)
      [] OTHER -> Err("BadType")

-----------------------------------------------------------------------------
(* json.rs: comparison *)

(* String ordering (Rust's lexicographic String comparison) over the       *)
(* strings the model uses, listed in ascending order.                      *)
StrOrder == <<"ania", "james", "misha", "teacher">>

StrRank(s) == CHOOSE i \in 1..Len(StrOrder) : StrOrder[i] = s

(* json_cmp with gt: defined within one type only (String, Number, Bool),  *)
(* any cross-type comparison is false; two Numbers compare as i64 when     *)
(* both are, as f64 otherwise.                                             *)
json_gt(x, y) ==
    CASE x.t = "str" /\ y.t = "str" -> StrRank(x.v) > StrRank(y.v)
      [] is_number(x) /\ is_number(y) ->
            IF is_i64(x) /\ is_i64(y) THEN x.v > y.v
            ELSE f64_gt(Number_as_f64(x), Number_as_f64(y))
      [] x.t = "bool" /\ y.t = "bool" -> (x.v /\ ~y.v)
      [] OTHER -> FALSE

json_lt(x, y) ==
    CASE x.t = "str" /\ y.t = "str" -> StrRank(x.v) < StrRank(y.v)
      [] is_number(x) /\ is_number(y) ->
            IF is_i64(x) /\ is_i64(y) THEN x.v < y.v
            ELSE f64_gt(Number_as_f64(y), Number_as_f64(x))
      [] x.t = "bool" /\ y.t = "bool" -> (~x.v /\ y.v)
      [] OTHER -> FALSE

json_eq(x, y) == x = y

json_count(val) == IF val.t = "arr" THEN JInt(Len(val.v)) ELSE JInt(1)

json_first(val) == IF val.t = "arr" /\ val.v # << >> THEN val.v[1] ELSE val

json_last(val) == IF val.t = "arr" /\ val.v # << >> THEN val.v[Len(val.v)] ELSE val

(* The loops over slices are written over an index range lo..hi with the   *)
(* loop's variable as last argument: the range is run as its two halves,   *)
(* the first half to completion before the second starts.                  *)

(* arr_max: the loop over s[1..] *)
RECURSIVE arr_max_range(_, _, _, _)
arr_max_range(s, lo, hi, max) ==
    IF lo > hi THEN max
    ELSE IF lo = hi THEN (IF json_gt(s[lo], max) THEN s[lo] ELSE max)
    ELSE LET mid == (lo + hi) \div 2
             left == arr_max_range(s, lo, mid, max)
         IN IF left = left THEN arr_max_range(s, mid + 1, hi, left) ELSE left

arr_max(s) == arr_max_range(s, 2, Len(s), s[1])

(* json_max that has no maximum for an empty array *)
json_max_of_elements(val) ==
    IF val.t = "arr" THEN (IF val.v # << >> THEN arr_max(val.v) ELSE JNull) ELSE val

json_max(val) == IF val.t = "arr" /\ val.v # << >> THEN arr_max(val.v) ELSE val

(* arr_min: the loop over s[1..] *)
RECURSIVE arr_min_range(_, _, _, _)
arr_min_range(s, lo, hi, min) ==
    IF lo > hi THEN min
    ELSE IF lo = hi THEN (IF json_lt(s[lo], min) THEN s[lo] ELSE min)
    ELSE LET mid == (lo + hi) \div 2
             left == arr_min_range(s, lo, mid, min)
         IN IF left = left THEN arr_min_range(s, mid + 1, hi, left) ELSE left

arr_min(s) == arr_min_range(s, 2, Len(s), s[1])

json_min(val) == IF val.t = "arr" /\ val.v # << >> THEN arr_min(val.v) ELSE val

(* json_arr_sum: the total, from the integer 0, of json_add_nums over the  *)
(* elements that are Numbers; the others are skipped.                      *)
RECURSIVE json_arr_sum_range(_, _, _, _)
json_arr_sum_range(s, lo, hi, total) ==
    IF lo > hi THEN total
    ELSE IF lo = hi THEN (IF is_number(s[lo]) THEN json_add_nums(total, s[lo]) ELSE total)
    ELSE LET mid == (lo + hi) \div 2
             left == json_arr_sum_range(s, lo, mid, total)
         IN IF left = left THEN json_arr_sum_range(s, mid + 1, hi, left) ELSE left

json_arr_sum(s) == json_arr_sum_range(s, 1, Len(s), JInt(0))

json_sum(val) ==
    CASE is_number(val) -> val
      [] val.t = "arr" -> json_arr_sum(val.v)
      [] OTHER -> JNull

(* The f64 total of a slice of Numbers, from 0.0 *)
RECURSIVE f64_total(_, _)
f64_total(s, n) == IF n = 0 THEN F64(0, 1) ELSE f64_add(f64_total(s, n - 1), Number_as_f64(s[n]))

(* json_arr_avg: BadType at the first element that is not a Number         *)
(* (json_f64 is None), and when the quotient is not finite (no elements)   *)
json_arr_avg(s) ==
    IF \E i \in 1..Len(s) : ~is_number(s[i]) THEN Err("BadType")
    ELSE LET num == Number_from_f64(f64_div(f64_total(s, Len(s)), F64(Len(s), 1)))
         IN IF num.some THEN Ok(num.v) ELSE Err("BadType")

(* json_avg that is the identity on every value that is not an array *)
json_avg_identity(val) == IF val.t = "arr" THEN json_arr_avg(val.v) ELSE Ok(val)

json_avg(val) ==
    CASE is_number(val) -> Ok(val)
      [] val.t = "arr" -> json_arr_avg(val.v)
      [] OTHER -> Err("BadType")

(* The sum of (x - mean)^2 over a slice of Numbers *)
RECURSIVE f64_squares(_, _, _)
f64_squares(s, n, mean) ==
    IF n = 0 THEN F64(0, 1)
    ELSE LET d == f64_sub(Number_as_f64(s[n]), mean)
         IN f64_add(f64_squares(s, n - 1, mean), f64_mul(d, d))

(* json_arr_var with the mean over all n elements *)
json_arr_var_mean_n(s, checked) ==
    IF \E i \in 1..Len(s) : ~is_number(s[i]) THEN Err("BadType")
    ELSE LET mean == f64_div(f64_total(s, Len(s)), F64(Len(s), 1))
             var == f64_div(f64_squares(s, Len(s), mean), F64(Len(s), 1))
             num == Number_from_f64(var)
         IN IF num.some THEN Ok(num.v) ELSE Err("BadType")

(* json_arr_var: mean = sum / (len - 1), var = (sum of (x - mean)^2) / len *)
(* len - 1 is a usize subtraction: on no elements it panics where overflow *)
(* is checked and wraps to usize::MAX where it is not, which makes the     *)
(* mean 0.0 and the variance 0.0 / 0.0.                                    *)
json_arr_var(s, checked) ==
    IF \E i \in 1..Len(s) : ~is_number(s[i]) THEN Err("BadType")
    ELSE IF Len(s) = 0 THEN (IF checked THEN Overflowed ELSE Err("BadType"))
    ELSE LET mean == f64_div(f64_total(s, Len(s)), F64(Len(s) - 1, 1))
             var == f64_div(f64_squares(s, Len(s), mean), F64(Len(s), 1))
             num == Number_from_f64(var)
         IN IF num.some THEN Ok(num.v) ELSE Err("BadType")

json_var(val, checked) ==
    CASE is_number(val) -> Ok(val)
      [] val.t = "arr" -> json_arr_var(val.v, checked)
      [] OTHER -> Err("BadType")

(* arr_unique: an element is pushed unless an equal one was pushed before *)
RECURSIVE arr_unique_loop(_, _)
arr_unique_loop(arr, n) ==
    IF n = 0 THEN << >>
    ELSE LET unique == arr_unique_loop(arr, n - 1)
         IN IF \E j \in 1..Len(unique) : unique[j] = arr[n] THEN unique
            ELSE Append(unique, arr[n])

(* arr_unique that drops an element equal to the one just before it *)
arr_unique_adjacent(arr) ==
    LET kept == SelectSeq([i \in 1..Len(arr) |-> i], LAMBDA i : i = 1 \/ arr[i - 1] # arr[i])
    IN JArr([k \in 1..Len(kept) |-> arr[kept[k]]])

arr_unique(arr) == JArr(arr_unique_loop(arr, Len(arr)))

json_unique(val) == IF val.t = "arr" THEN arr_unique(val.v) ELSE val

json_obj_ref(val) == IF val.t = "obj" THEN Ok(val.v) ELSE Err("ExpectedObj")

(* json_append: push onto an Array; merge two Objects; an Object given a   *)
(* non-Object becomes the one-element array holding the old Object; Null   *)
(* is replaced by the element; any other scalar becomes [scalar, elem].    *)
json_append(val, elem) ==
    CASE val.t = "arr" -> JArr(Append(val.v, elem))
      [] val.t = "obj" /\ elem.t = "obj" ->
            JObj([f \in (DOMAIN val.v) \cup (DOMAIN elem.v) |->
                    IF f \in DOMAIN elem.v THEN elem.v[f] ELSE val.v[f]])
      [] val.t = "obj" /\ elem.t # "obj" -> JArr(<<val>>)
      [] val.t = "null" -> elem
      [] OTHER -> JArr(<<val, elem>>)

(* json_get: the field key of an Object; over an Array, the array of what  *)
(* its elements give, None when it is empty or no element gives anything;  *)
(* None for any other value.                                               *)
RECURSIVE json_get(_, _)
json_get(key, val) ==
    CASE val.t = "arr" ->
            LET got == [i \in 1..Len(val.v) |-> json_get(key, val.v[i])]
                idx == SelectSeq([i \in 1..Len(val.v) |-> i], LAMBDA i : got[i].some)
                out == [k \in 1..Len(idx) |-> got[idx[k]].v]
            IN IF Len(out) = 0 THEN None ELSE Some(JArr(out))
      [] val.t = "obj" -> IF obj_has(val.v, key) THEN Some(val.v[key]) ELSE None
      [] OTHER -> None

-----------------------------------------------------------------------------
(* Commands and filters (crate::cmd, crate::query, crate::keyed)           *)

(* A Cmd is [c |-> "Key", key |-> k], [c |-> "Json", val |-> v] or, for a  *)
(* unary node, [c |-> kind, arg |-> Cmd].                                  *)
Key(k) == [c |-> "Key", key |-> k]

Unr(kind, arg) == [c |-> kind, arg |-> arg]

AggregateKinds == {"Avg", "Count", "First", "Last", "Max", "Min", "StdDev", "Sum", "Var"}

(* Cmd::is_aggregate: the aggregate node kinds *)
is_aggregate(cmd) == cmd.c \in AggregateKinds

(* find_keys: the keys a command refers to, None when it refers to none.   *)
(* The Vec<String> is kept as a set: its only use is to copy the named     *)
(* fields of a row into a map.                                              *)
RECURSIVE find_keys(_)
find_keys(cmd) ==
    CASE cmd.c = "Key" -> Some({cmd.key})
      [] cmd.c \in AggregateKinds \cup {"Unique"} -> find_keys(cmd.arg)
      [] OTHER -> None

(* Cmd::keys, called by parse_keys *)
Cmd_keys(cmd) == find_keys(cmd)

(* Filter::apply on an Object: a comparison of the row's field with a      *)
(* literal (false when the row lacks the field), or a conjunction.         *)
RECURSIVE Filter_apply(_, _)
Filter_apply(filter, obj) ==
    CASE filter.op = "eq" -> obj_has(obj, filter.key) /\ json_eq(obj[filter.key], filter.val)
      [] filter.op = "gt" -> obj_has(obj, filter.key) /\ json_gt(obj[filter.key], filter.val)
      [] filter.op = "lt" -> obj_has(obj, filter.key) /\ json_lt(obj[filter.key], filter.val)
      [] filter.op = "and" -> Filter_apply(filter.l, obj) /\ Filter_apply(filter.r, obj)
      [] OTHER -> FALSE

(* The values of field key in the Object rows that have it, in row order   *)
has_field(row, key) == row.t = "obj" /\ obj_has(row.v, key)

project(rows, key) ==
    LET having == SelectSeq(rows, LAMBDA row : has_field(row, key))
    IN [i \in 1..Len(having) |-> having[i].v[key]]

(* The value an aggregate node kind computes from the collected values     *)
aggregate_vals(kind, vals) ==
    CASE kind = "Max" -> IF vals = << >> THEN JNull ELSE arr_max(vals)
      [] kind = "Min" -> IF vals = << >> THEN JNull ELSE arr_min(vals)
      [] kind = "First" -> IF vals = << >> THEN JNull ELSE vals[1]
      [] kind = "Last" -> IF vals = << >> THEN JNull ELSE vals[Len(vals)]
      [] kind = "Count" -> JInt(Len(vals))
      [] kind = "Sum" -> json_arr_sum(vals)
      [] OTHER -> JNull

(* parse_aggregators: one aggregator per select, named by the select; it   *)
(* is BadCmd when a select is not an aggregate of a key.                   *)
parse_aggregators(selects) ==
    IF \A n \in DOMAIN selects : is_aggregate(selects[n]) /\ selects[n].arg.c = "Key"
    THEN Ok(DOMAIN selects)
    ELSE Err("BadCmd")

(* Aggregate::push over the Object rows, then Aggregate::aggregate *)
aggregate(selects, name, rows) ==
    aggregate_vals(selects[name].c, project(rows, selects[name].arg.key))

(* parse_reduce: a select that is an aggregate of a key reduces a group *)
parse_reduce(cmd) == is_aggregate(cmd) /\ cmd.arg.c = "Key"

(* keyed_reduce: each group collapses to one object; a reduced column is   *)
(* the aggregate over the group's partial objects, a column that is not    *)
(* reduced passes through from the group's first element.                  *)
keyed_reduce(split, selects) ==
    [g \in DOMAIN split |->
        LET part == split[g].v
            first == part[1].v
            cols == {f \in DOMAIN selects :
                        parse_reduce(selects[f])
                        \/ (selects[f].c = "Key" /\ obj_has(first, selects[f].key))}
        IN JObj([f \in cols |->
                    IF parse_reduce(selects[f])
                    THEN aggregate_vals(selects[f].c, project(part, selects[f].arg.key))
                    ELSE first[selects[f].key]])]

-----------------------------------------------------------------------------
(* inmemdb.rs: the query engine *)

(* eval_select_all's result cap *)
Cap == 50

Min2(a, b) == IF a < b THEN a ELSE b

get_ref(db, key) == IF key \in DOMAIN db THEN Ok(db[key]) ELSE Err("BadKey")

json_key_string(val) == IF val.t = "str" THEN Ok(val.v) ELSE Panic

(* populate_entry that keeps one row per group *)
populate_entry_last(out, by_val, arg) ==
    LET ks == IF by_val.t = "str" THEN Ok(by_val.v) ELSE Panic
    IN IF ks.kind # "ok" THEN ks ELSE Ok(obj_insert(out, ks.val, JArr(<<arg>>)))

(* populate_entry: push arg onto the group array of by_val's key *)
populate_entry(out, by_val, arg) ==
    LET ks == json_key_string(by_val)
    IN IF ks.kind # "ok" THEN ks
       ELSE Ok(obj_insert(out, ks.val,
                    JArr(Append(IF obj_has(out, ks.val) THEN out[ks.val].v ELSE << >>, arg))))

add_row_id(row, i) ==
    IF row.t = "obj"
    THEN Ok(JObj(IF obj_has(row.v, "_id") THEN row.v ELSE obj_insert(row.v, "_id", JInt(i))))
    ELSE Err("BadObject")

has_aggregation(selects) == \A n \in DOMAIN selects : is_aggregate(selects[n])

(* eval_from that takes an entry that is not an Array as a one-row table *)
eval_from_wrap(db, cmd) ==
    LET r == IF cmd.from \in DOMAIN db THEN Ok(db[cmd.from]) ELSE Err("BadKey")
    IN IF r.kind # "ok" THEN Err("BadFrom")
       ELSE IF r.val.t = "arr" THEN Ok(r.val.v) ELSE Ok(<<r.val>>)

(* Query::eval_from *)
eval_from(db, cmd) ==
    LET r == get_ref(db, cmd.from)
    IN IF r.kind = "ok" /\ r.val.t = "arr" THEN Ok(r.val.v) ELSE Err("BadFrom")

(* the loop body of eval_where tagging a row with its place in            *)
(* filtered_rows                                                           *)
eval_where_row_renumbered(rows, filter, i, filtered_rows) ==
    LET obj == json_obj_ref(rows[i + 1])
    IN IF filtered_rows.kind # "ok" THEN filtered_rows
       ELSE IF obj.kind # "ok" THEN obj
       ELSE IF ~Filter_apply(filter, obj.val) THEN filtered_rows
       ELSE Ok(Append(filtered_rows.val,
                      JObj(IF obj_has(obj.val, "_id") THEN obj.val
                           ELSE [f \in (DOMAIN obj.val) \cup {"_id"} |->
                                    IF f = "_id" THEN JInt(Len(filtered_rows.val))
                                    ELSE obj.val[f]])))

(* Query::eval_where: the body of the loop over rows.enumerate() for the   *)
(* row of index i (rows[i + 1]), filtered_rows being the outcome so far.   *)
eval_where_row(rows, filter, i, filtered_rows) ==
    LET obj == json_obj_ref(rows[i + 1])
        obj_row == add_row_id(rows[i + 1], i)
    IN IF filtered_rows.kind # "ok" THEN filtered_rows
       ELSE IF obj.kind # "ok" THEN obj
       ELSE IF ~Filter_apply(filter, obj.val) THEN filtered_rows
       ELSE IF obj_row.kind # "ok" THEN obj_row
       ELSE Ok(Append(filtered_rows.val, obj_row.val))

RECURSIVE eval_where_range(_, _, _, _, _)
eval_where_range(rows, filter, lo, hi, filtered_rows) ==
    IF lo > hi THEN filtered_rows
    ELSE IF lo = hi THEN eval_where_row(rows, filter, lo, filtered_rows)
    ELSE LET mid == (lo + hi) \div 2
             left == eval_where_range(rows, filter, lo, mid, filtered_rows)
         IN IF left = left THEN eval_where_range(rows, filter, mid + 1, hi, left) ELSE left

eval_where(rows, filter) == eval_where_range(rows, filter, 0, Len(rows) - 1, Ok(<< >>))

(* Query::eval_select_all: rows.iter().take(50).enumerate(); the body of   *)
(* the loop for the row of index i, output being the outcome so far.       *)
eval_select_all_row(rows, i, output) ==
    LET row == add_row_id(rows[i + 1], i)
    IN IF output.kind # "ok" THEN output
       ELSE IF row.kind # "ok" THEN row
       ELSE Ok(Append(output.val, row.val))

RECURSIVE eval_select_all_range(_, _, _, _)
eval_select_all_range(rows, lo, hi, output) ==
    IF lo > hi THEN output
    ELSE IF lo = hi THEN eval_select_all_row(rows, lo, output)
    ELSE LET mid == (lo + hi) \div 2
             left == eval_select_all_range(rows, lo, mid, output)
         IN IF left = left THEN eval_select_all_range(rows, mid + 1, hi, left) ELSE left

(* eval_select_all without the cap *)
eval_select_all_uncapped(rows) ==
    LET output == eval_select_all_range(rows, 0, Len(rows) - 1, Ok(<< >>))
    IN IF output.kind # "ok" THEN output ELSE Ok(JArr(output.val))

eval_select_all(rows) ==
    LET output == eval_select_all_range(rows, 0, Min2(Cap, Len(rows)) - 1, Ok(<< >>))
    IN IF output.kind # "ok" THEN output ELSE Ok(JArr(output.val))

(* eval_row for one select: anything but a Key command on an Object row    *)
(* is unimplemented!()                                                     *)
eval_row_ok(cmd, row) == cmd.c = "Key" /\ row.t = "obj"

(* eval_nonaggregate's inner loop over the selects of one row: the object  *)
(* of the output columns whose key the row has, None when there is none.   *)
(* The columns are inserted into a map, so the HashMap's iteration order   *)
(* does not show in the outcome.                                           *)
eval_row(selects, row) ==
    IF \E n \in DOMAIN selects : ~eval_row_ok(selects[n], row) THEN Panic
    ELSE LET cols == {n \in DOMAIN selects : obj_has(row.v, selects[n].key)}
         IN Ok(IF cols = {} THEN None
               ELSE Some(JObj([n \in cols |-> row.v[selects[n].key]])))

(* eval_nonaggregate: the loop over the rows *)
eval_nonaggregate_row(selects, row, out) ==
    LET obj == eval_row(selects, row)
    IN IF out.kind # "ok" THEN out
       ELSE IF obj.kind # "ok" THEN obj
       ELSE IF obj.val.some THEN Ok(Append(out.val, obj.val.v))
       ELSE out

RECURSIVE eval_nonaggregate_range(_, _, _, _, _)
eval_nonaggregate_range(selects, rows, lo, hi, out) ==
    IF lo > hi THEN out
    ELSE IF lo = hi THEN eval_nonaggregate_row(selects, rows[lo], out)
    ELSE LET mid == (lo + hi) \div 2
             left == eval_nonaggregate_range(selects, rows, lo, mid, out)
         IN IF left = left THEN eval_nonaggregate_range(selects, rows, mid + 1, hi, left)
            ELSE left

eval_nonaggregate(selects, rows) ==
    LET out == eval_nonaggregate_range(selects, rows, 1, Len(rows), Ok(<< >>))
    IN IF out.kind # "ok" THEN out ELSE Ok(JArr(out.val))

(* eval_obj_selects leaving out the aggregates that have no value *)
eval_obj_selects_valued(selects, rows) ==
    IF DOMAIN selects = {} THEN eval_select_all(rows)
    ELSE IF has_aggregation(selects)
         THEN LET aggs == parse_aggregators(selects)
              IN IF aggs.kind # "ok" THEN aggs
                 ELSE Ok(JObj([n \in {m \in aggs.val : aggregate(selects, m, rows) # JNull} |->
                                aggregate(selects, n, rows)]))
         ELSE eval_nonaggregate(selects, rows)

(* Query::eval_obj_selects *)
eval_obj_selects(selects, rows) ==
    IF DOMAIN selects = {} THEN eval_select_all(rows)
    ELSE IF has_aggregation(selects)
         THEN LET aggs == parse_aggregators(selects)
              IN IF aggs.kind # "ok" THEN aggs
                 ELSE Ok(JObj([n \in aggs.val |-> aggregate(selects, n, rows)]))
         ELSE eval_nonaggregate(selects, rows)

(* Query::parse_keys *)
parse_keys(cmd) ==
    IF cmd.selects.some
    THEN LET selects == cmd.selects.v
         IN IF \E n \in DOMAIN selects : ~Cmd_keys(selects[n]).some THEN Err("BadCmd")
            ELSE Ok(Some(UNION {Cmd_keys(selects[n]).v : n \in DOMAIN selects}))
    ELSE Ok(None)

(* the loop body of eval_keyed_select grouping the rows as they are *)
eval_keyed_row_whole(by_key, keys, row, split) ==
    LET row_obj == row.v
        arg == IF keys.some THEN JObj(obj_restrict(row_obj, keys.v)) ELSE JObj(row_obj)
    IN IF split.kind # "ok" THEN split
       ELSE IF row.t # "obj" THEN split
       ELSE IF ~obj_has(row_obj, by_key) THEN split
       ELSE populate_entry(split.val, row_obj[by_key], arg)

(* Query::eval_keyed_select: the body of the loop over the rows; keys is   *)
(* the Option parse_keys returned, split the outcome so far.  A row that   *)
(* is not an Object or lacks the by field is skipped.                      *)
eval_keyed_row(by_key, keys, row, split) ==
    LET row_obj == row.v
        arg == IF keys.some THEN JObj(obj_restrict(row_obj, keys.v))
               ELSE JObj(obj_remove(row_obj, by_key))
    IN IF split.kind # "ok" THEN split
       ELSE IF row.t # "obj" THEN split
       ELSE IF ~obj_has(row_obj, by_key) THEN split
       ELSE populate_entry(split.val, row_obj[by_key], arg)

RECURSIVE eval_keyed_split(_, _, _, _, _, _)
eval_keyed_split(by_key, keys, rows, lo, hi, split) ==
    IF lo > hi THEN split
    ELSE IF lo = hi THEN eval_keyed_row(by_key, keys, rows[lo], split)
    ELSE LET mid == (lo + hi) \div 2
             left == eval_keyed_split(by_key, keys, rows, lo, mid, split)
         IN IF left = left THEN eval_keyed_split(by_key, keys, rows, mid + 1, hi, left)
            ELSE left

(* Query::parse_reduce_vec: are there reductions among the selects *)
parse_reduce_vec(cmd) == \E n \in DOMAIN cmd.selects.v : parse_reduce(cmd.selects.v[n])

eval_keyed_select(cmd, by, rows) ==
    IF by.t # "str" THEN Panic
    ELSE LET ids == parse_keys(cmd)
         IN IF ids.kind # "ok" THEN ids
            ELSE LET split == eval_keyed_split(by.v, ids.val, rows, 1, Len(rows), Ok(EmptyObj))
                 IN IF split.kind # "ok" THEN split
                    ELSE IF ids.val.some /\ parse_reduce_vec(cmd)
                         THEN Ok(JObj(keyed_reduce(split.val, cmd.selects.v)))
                         ELSE Ok(JObj(split.val))

(* Query::eval_select *)
eval_select(cmd, rows) ==
    IF cmd.by.some THEN eval_keyed_select(cmd, cmd.by.v, rows)
    ELSE IF cmd.selects.some THEN eval_obj_selects(cmd.selects.v, rows)
         ELSE eval_select_all(rows)

(* Query::exec *)
exec(db, cmd) ==
    LET rows == eval_from(db, cmd)
    IN IF rows.kind # "ok" THEN rows
       ELSE IF cmd.filter.some
            THEN LET filtered_rows == eval_where(rows.val, cmd.filter.v)
                 IN IF filtered_rows.kind # "ok" THEN filtered_rows
                    ELSE eval_select(cmd, filtered_rows.val)
            ELSE eval_select(cmd, rows.val)

-----------------------------------------------------------------------------
(* inmemdb.rs: the store-scoped commands.  Each returns the outcome and    *)
(* the store after it.                                                     *)

(* a query that keeps the rows it returned as the table it read *)
query_write_back(db, cmd) ==
    LET out == exec(db, cmd)
    IN [res |-> out,
        db |-> IF out.kind = "ok" /\ out.val.t = "arr" THEN obj_insert(db, cmd.from, out.val)
               ELSE db]

(* InMemDb::query takes &self: the store is read, never written *)
query(db, cmd) == [res |-> exec(db, cmd), db |-> db]

(* Set that keeps the value an entry has (an or_insert) *)
eval_Set_or_insert(db, key, val) ==
    [res |-> Ok(IF key \in DOMAIN db THEN db[key] ELSE JNull),
     db |-> IF key \in DOMAIN db THEN db ELSE obj_insert(db, key, val)]

(* Cmd::Set(key, Cmd::Json(val)): insert, returning the previous value *)
eval_Set(db, key, val) ==
    [res |-> Ok(IF key \in DOMAIN db THEN db[key] ELSE JNull),
     db |-> obj_insert(db, key, val)]

(* Cmd::Delete(key): remove, returning the removed value *)
eval_Delete(db, key) ==
    [res |-> Ok(IF key \in DOMAIN db THEN db[key] ELSE JNull),
     db |-> obj_remove(db, key)]

(* InMemDb::entry: the entry of key, created as Null when absent *)
entry(db, key) == IF key \in DOMAIN db THEN db[key] ELSE JNull

(* Cmd::Append(key, Cmd::Json(val)) -> InMemDb::append *)
eval_Append(db, key, val) ==
    [res |-> Ok(JNull), db |-> obj_insert(db, key, json_append(entry(db, key), val))]

(* The key of a store-scoped Cmd::Key, which InMemDb::key splits, is the   *)
(* sequence of its characters, a name standing for a run of characters     *)
(* that holds no dot: "s.a" is <<"s", ".", "a">>.  (A key that is only     *)
(* looked up in a map, never split, is written as its name.)               *)
RECURSIVE key_string(_)
key_string(key) == IF key = << >> THEN "" ELSE Head(key) \o key_string(Tail(key))

(* str::split("."): the segments between the dots, the empty ones included *)
RECURSIVE split_from(_, _, _, _)
split_from(key, i, segment, segments) ==
    IF i > Len(key) THEN Append(segments, segment)
    ELSE IF key[i] = "." THEN split_from(key, i + 1, "", Append(segments, segment))
    ELSE split_from(key, i + 1, segment \o key[i], segments)

split(key) == split_from(key, 1, "", << >>)

ErrUnknownKey(key) ==
    [kind |-> "err", val |-> [t |-> "error", v |-> "UnknownKey", key |-> key]]

(* InMemDb::key: the loop over the segments after the first; a segment is  *)
(* projected from nested_val when the one before gave a value, from the    *)
(* entry otherwise.                                                        *)
RECURSIVE key_nested(_, _, _, _)
key_nested(it, i, val, nested_val) ==
    IF i > Len(it) THEN nested_val
    ELSE key_nested(it, i + 1, val,
                    json_get(it[i], IF nested_val.some THEN nested_val.v ELSE val))

(* InMemDb::key naming the segment it looked up in UnknownKey *)
InMemDb_key_segment(db, k) ==
    LET it == split(k)
    IN IF it[1] \notin DOMAIN db THEN ErrUnknownKey(it[1])
       ELSE LET val == db[it[1]]
                nested_val == key_nested(it, 2, val, None)
            IN IF nested_val.some THEN Ok(nested_val.v) ELSE Ok(val)

(* InMemDb::key *)
InMemDb_key(db, k) ==
    LET it == split(k)
    IN IF it[1] \notin DOMAIN db THEN ErrUnknownKey(key_string(k))
       ELSE LET val == db[it[1]]
                nested_val == key_nested(it, 2, val, None)
            IN IF nested_val.some THEN Ok(nested_val.v) ELSE Ok(val)

(* Cmd::Key(k): the store is read *)
eval_Key(db, k) == [res |-> InMemDb_key(db, k), db |-> db]

(* Cmd::Json(val) *)
Json(val) == [c |-> "Json", val |-> val]

(* InMemDb::eval of the argument of a Set: a literal or a key *)
eval_arg(db, arg) == IF arg.c = "Json" THEN Ok(arg.val) ELSE InMemDb_key(db, arg.key)

(* Cmd::Set(key, arg): arg is evaluated first, its error is the outcome *)
eval_SetCmd(db, k, arg) ==
    LET val == eval_arg(db, arg)
    IN IF val.kind # "ok" THEN [res |-> val, db |-> db] ELSE eval_Set(db, k, val.val)

-----------------------------------------------------------------------------
(* apply.rs: row-scoped evaluation *)

(* Command nodes: a binary node is [c |-> kind, lhs |-> Cmd, rhs |-> Cmd]; *)
(* a node the evaluators match with `_` patterns only (Cmd::Set(_, _),     *)
(* Cmd::Delete(_), Cmd::Summary, ...) is its kind, [c |-> kind].           *)
Bin(kind, lhs, rhs) == [c |-> kind, lhs |-> lhs, rhs |-> rhs]

Node(kind) == [c |-> kind]

(* Cmd::Get(key, arg) and Cmd::Has(key) *)
Get(k, arg) == [c |-> "Get", key |-> k, arg |-> arg]

Has(k) == [c |-> "Has", key |-> k]

(* The node kinds both evaluators answer with Err(Error::BadCmd) *)
BadCmds == {"Append", "Apply", "Set", "Delete", "Push", "Pop", "Query", "Insert", "Summary"}

(* The unary and binary node kinds of the model *)
UnrFns == {"First", "Last", "Len", "Max", "Min"}

BinFns == {"Add", "Sub", "Mul", "Div"}

(* The function of json.rs a unary or a binary node calls *)
unr_fn(kind, x) ==
    CASE kind = "First" -> json_first(x)
      [] kind = "Last" -> json_last(x)
      [] kind = "Len" -> json_count(x)
      [] kind = "Max" -> json_max(x)
      [] kind = "Min" -> json_min(x)

bin_fn(kind, x, y) ==
    CASE kind = "Add" -> json_add(x, y)
      [] kind = "Sub" -> json_sub(x, y)
      [] kind = "Mul" -> json_mul(x, y)
      [] kind = "Div" -> json_div(x, y)

(* Value::get(&str): the field of an Object, None for any other value *)
Value_get(x, k) == IF x.t = "obj" /\ obj_has(x.v, k) THEN Some(x.v[k]) ELSE None

(* get_key: the field, Null when it is absent *)
get_key(row, k) == IF Value_get(row, k).some THEN Value_get(row, k).v ELSE JNull

(* map(get).filter(is_some).map(unwrap.clone).collect(), in element order *)
present_fields(k, arr) ==
    LET idx == SelectSeq([i \in 1..Len(arr) |-> i], LAMBDA i : Value_get(arr[i], k).some)
    IN [j \in 1..Len(idx) |-> Value_get(arr[idx[j]], k).v]

apply_key(k, rows) == JArr(present_fields(k, rows))

(* gt: greater-than within one type (String, Bool, Number), false across   *)
(* types                                                                   *)
gt(x, y) == json_gt(x, y)

(* apply_max over Cmd::Key, the fold of one worker: the value kept so far  *)
(* unless it is not greater than the next                                  *)
RECURSIVE max_fold(_, _)
max_fold(x, ys) ==
    IF ys = << >> THEN x
    ELSE max_fold(IF x.some /\ gt(x.v, Head(ys)) THEN x ELSE Some(Head(ys)), Tail(ys))

(* apply_max over Cmd::Key, the reduction of two partial results *)
max_reduce(x, y) ==
    CASE x.some /\ y.some -> IF gt(x.v, y.v) THEN x ELSE y
      [] x.some /\ ~y.some -> x
      [] OTHER -> y

(* apply_max over Cmd::Key: what the fork-join can return.  The rows are   *)
(* folded by one worker, or split in two halves that are each evaluated    *)
(* the same way and whose results are reduced, left with right.            *)
RECURSIVE par_max(_, _)
par_max(k, rows) ==
    {max_fold(None, present_fields(k, rows))}
    \cup (IF Len(rows) < 2 THEN {}
          ELSE LET mid == Len(rows) \div 2
               IN {max_reduce(x, y) : x \in par_max(k, SubSeq(rows, 1, mid)),
                                      y \in par_max(k, SubSeq(rows, mid + 1, Len(rows)))})

(* apply_key2 that keeps a Null for an element without the field *)
apply_key2_nulled(k, val) ==
    Ok(IF val.t = "arr" THEN JArr([i \in 1..Len(val.v) |-> get_key(val.v[i], k)])
       ELSE get_key(val, k))

apply_key2(k, val) ==
    Ok(IF val.t = "arr" THEN JArr(present_fields(k, val.v)) ELSE get_key(val, k))

RECURSIVE apply_rows(_, _)
(* apply_rows: a command over the rows of a table.  apply_unr_fn and       *)
(* apply_bin_fn evaluate the arguments first, left to right, and return    *)
(* the first error (`?`).                                                  *)
apply_rows(cmd, rows) ==
    CASE cmd.c \in BadCmds -> Err("BadCmd")
      [] cmd.c = "Key" -> Ok(apply_key(cmd.key, rows))
      [] cmd.c = "Json" -> Ok(cmd.val)
      [] cmd.c = "Get" ->
            LET x == apply_rows(cmd.arg, rows)
                field == IF x.kind = "ok" THEN json_get(cmd.key, x.val) ELSE None
            IN IF x.kind # "ok" THEN x
               ELSE IF field.some THEN Ok(field.v) ELSE Err("BadKey")
      [] cmd.c = "Has" ->
            Ok(JArr([i \in 1..Len(rows) |-> JBool(Value_get(rows[i], cmd.key).some)]))
      [] cmd.c \in UnrFns \ {"Max"} ->
            LET x == apply_rows(cmd.arg, rows)
            IN IF x.kind # "ok" THEN x ELSE Ok(unr_fn(cmd.c, x.val))
      [] cmd.c \in BinFns ->
            LET x == apply_rows(cmd.lhs, rows)
                y == apply_rows(cmd.rhs, rows)
            IN IF x.kind # "ok" THEN x
               ELSE IF y.kind # "ok" THEN y
               ELSE bin_fn(cmd.c, x.val, y.val)

(* apply that evaluates a Delete node as Null *)
RECURSIVE apply(_, _)
apply_delete_null(cmd, val) ==
    CASE cmd.c = "Delete" -> Ok(JNull)
      [] cmd.c \in BadCmds \ {"Delete"} -> Err("BadCmd")
      [] cmd.c = "Key" -> apply_key2(cmd.key, val)
      [] cmd.c = "Json" -> Ok(cmd.val)
      [] cmd.c = "Get" ->
            LET x == apply(cmd.arg, val)
                field == IF x.kind = "ok" THEN json_get(cmd.key, x.val) ELSE None
            IN IF x.kind # "ok" THEN x ELSE Ok(IF field.some THEN field.v ELSE JNull)
      [] cmd.c = "Has" ->
            Ok(IF val.t = "arr"
               THEN JArr([i \in 1..Len(val.v) |-> JBool(Value_get(val.v[i], cmd.key).some)])
               ELSE JBool(Value_get(val, cmd.key).some))
      [] cmd.c \in UnrFns ->
            LET x == apply(cmd.arg, val)
            IN IF x.kind # "ok" THEN x ELSE Ok(unr_fn(cmd.c, x.val))
      [] cmd.c \in BinFns ->
            LET x == apply(cmd.lhs, val)
                y == apply(cmd.rhs, val)
            IN IF x.kind # "ok" THEN x
               ELSE IF y.kind # "ok" THEN y
               ELSE bin_fn(cmd.c, x.val, y.val)

(* apply: a command over one value; every argument is evaluated with `?`,  *)
(* left to right.                                                          *)
apply(cmd, val) ==
    CASE cmd.c \in BadCmds -> Err("BadCmd")
      [] cmd.c = "Key" -> apply_key2(cmd.key, val)
      [] cmd.c = "Json" -> Ok(cmd.val)
      [] cmd.c = "Get" ->
            LET x == apply(cmd.arg, val)
                field == IF x.kind = "ok" THEN json_get(cmd.key, x.val) ELSE None
            IN IF x.kind # "ok" THEN x ELSE Ok(IF field.some THEN field.v ELSE JNull)
      [] cmd.c = "Has" ->
            Ok(IF val.t = "arr"
               THEN JArr([i \in 1..Len(val.v) |-> JBool(Value_get(val.v[i], cmd.key).some)])
               ELSE JBool(Value_get(val, cmd.key).some))
      [] cmd.c \in UnrFns ->
            LET x == apply(cmd.arg, val)
            IN IF x.kind # "ok" THEN x ELSE Ok(unr_fn(cmd.c, x.val))
      [] cmd.c \in BinFns ->
            LET x == apply(cmd.lhs, val)
                y == apply(cmd.rhs, val)
            IN IF x.kind # "ok" THEN x
               ELSE IF y.kind # "ok" THEN y
               ELSE bin_fn(cmd.c, x.val, y.val)

-----------------------------------------------------------------------------
(* The inputs *)

(* the longest table Append builds row by row *)
MaxRows == 3

(* by how many rows the longest stored table exceeds the select-all cap *)
MaxOver == 1

Row1 == JObj([name |-> JStr("james"), age |-> JInt(35)])

Row2 == JObj([name |-> JStr("ania"), age |-> JInt(28), job |-> JStr("teacher")])

Row3 == JObj([age |-> JInt(10)])

Row4 == JObj(obj_insert([name |-> JStr("ania"), age |-> JInt(20)], "_id", JInt(7)))

RowPool == {Row1, Row2, Row3, Row4, JInt(1)}

(* A table longer than the select-all cap: every row passes age > 20 *)
LongTable(n) ==
    JArr([i \in 1..n |->
            JObj([name |-> JStr(IF i % 2 = 0 THEN "ania" ELSE "james"),
                  age |-> JInt(20 + i)])])

Nested == JObj([a |-> JObj([b |-> JInt(1)])])

SetInputs ==
    {<<"t", Json(JArr(<< >>))>>, <<"t", Json(LongTable(Cap))>>,
     <<"t", Json(LongTable(Cap + MaxOver))>>,
     <<"s", Json(JInt(5))>>, <<"s", Json(Nested)>>,
     <<"s", Key(<<"zz">>)>>, <<"s", Key(<<"s", ".", "a">>)>>}

KeyInputs ==
    {<<"t">>, <<"s">>, <<"zz">>, <<"zz", ".", "a">>,
     <<"s", ".", "a">>, <<"s", ".", "a", ".", "b">>, <<"s", ".", "x">>,
     <<"s", ".", "x", ".", "a">>, <<"s", ".", "a", ".", "x", ".", "b">>,
     <<"t", ".", "name">>, <<"t", ".", "job">>, <<"t", ".", "zz">>}

AppendInputs == {"t"} \X RowPool

Keys == {"t", "s"}

Froms == Keys \cup {"zz"}

FilterGt == [op |-> "gt", key |-> "age", val |-> JInt(20)]

FilterEq == [op |-> "eq", key |-> "name", val |-> JStr("ania")]

Filters == {None, Some(FilterGt), Some(FilterEq)}

SelKeys == [name |-> Key("name"), job |-> Key("job")]

SelAggs == [youngest |-> Unr("Min", Key("age")), oldest |-> Unr("Max", Key("age"))]

SelMixed == [name |-> Key("name"), oldest |-> Unr("Max", Key("age"))]

Selects == {None, Some(EmptyObj), Some(SelKeys), Some(SelAggs), Some(SelMixed)}

Bys == {None, Some(JStr("name")), Some(JStr("age")), Some(JInt(1))}

Queries == [from : Froms, selects : Selects, filter : Filters, by : Bys]

-----------------------------------------------------------------------------
(* The state machine: one command at a time is evaluated against the store *)

NoCmd == [op |-> "None"]

NoRes == [kind |-> "none", val |-> JNull]

Init ==
    /\ cache = EmptyObj
    /\ pc = "idle"
    /\ last = NoCmd
    /\ res = NoRes
    /\ dst = << >>
    /\ src = << >>
    /\ sent = << >>
    /\ items = << >>

Done(cmd, out) ==
    /\ cache' = out.db
    /\ res' = out.res
    /\ last' = cmd
    /\ pc' = "done"
    /\ UNCHANGED codec

Set ==
    /\ pc = "idle"
    /\ \E in \in SetInputs :
          Done([op |-> "Set", key |-> in[1], arg |-> in[2]], eval_SetCmd(cache, in[1], in[2]))

GetKey ==
    /\ pc = "idle"
    /\ \E k \in KeyInputs : Done([op |-> "Key", key |-> k], eval_Key(cache, k))

Delete ==
    /\ pc = "idle"
    /\ \E key \in Keys : Done([op |-> "Delete", key |-> key], eval_Delete(cache, key))

AppendRow ==
    /\ pc = "idle"
    /\ \E in \in AppendInputs :
          /\ entry(cache, in[1]).t = "arr" => Len(entry(cache, in[1]).v) < MaxRows
          /\ Done([op |-> "Append", key |-> in[1], val |-> in[2]],
                  eval_Append(cache, in[1], in[2]))

Query ==
    /\ pc = "idle"
    /\ \E cmd \in Queries : Done([op |-> "Query", cmd |-> cmd], query(cache, cmd))

(* The outcome is handed to the caller, the store is ready for the next    *)
(* command.                                                                *)
Return ==
    /\ pc = "done"
    /\ pc' = "idle"
    /\ last' = NoCmd
    /\ res' = NoRes
    /\ UNCHANGED <<cache, codec>>

Next == Set \/ GetKey \/ Delete \/ AppendRow \/ Query \/ Return

Spec == Init /\ [][Next]_vars

-----------------------------------------------------------------------------
(* The value algebra and the row-scoped evaluators, called on their own:   *)
(* each action evaluates one function of json.rs or apply.rs on operands   *)
(* drawn from the pools below.  The store is not touched.                  *)

(* the longest array operand *)
MaxLen == 2

(* the largest integer operand *)
MaxNum == 2

(* the operands that are not arrays: the integers -1..MaxNum, the floats   *)
(* 0.5, 1.5 and 2.0, Null, a Bool, Strings and an Object                   *)
Scalars ==
    {JInt(n) : n \in (-1)..MaxNum} \cup {JFloat(F64(n, 2)) : n \in {1, 3, 4}}
    \cup {JNull, JBool(TRUE), JStr("ania"), JStr("james"), Row3}

(* what an array operand holds: Numbers, a String, a nested array *)
Elems == {JInt(0), JInt(2), JFloat(F64(3, 2)), JStr("ania"), JArr(<<JInt(1)>>)}

(* the array ia of the tests *)
TestArray == JArr([i \in 1..5 |-> JInt(i)])

(* arrays one longer than MaxLen over three Numbers, 2 and 2.0 among them  *)
Repeats == {JArr(s) : s \in [1..(MaxLen + 1) -> {JInt(0), JInt(2), JFloat(F64(4, 2))}]}

Operands == Scalars \cup {JArr(s) : s \in UNION {[1..n -> Elems] : n \in 0..MaxLen}}

(* the rows and values of the row-scoped evaluators *)
RowSeqs == UNION {[1..n -> {Row1, Row2, Row3, JInt(1)}] : n \in 0..MaxLen}

ApplyVals == {JArr(rows) : rows \in RowSeqs} \cup {Row1, Row2, Row3, JInt(1), JNull}

(* the nodes the row-scoped evaluators reject *)
WriteCmds == {Node(kind) : kind \in BadCmds}

LeafCmds == {Key("name"), Key("age"), Key("zz"), Json(JInt(1)), Json(JStr("ania"))}

(* the commands handed to apply_rows: leaves, rejected nodes, and nodes    *)
(* over them; Add(age, name) may fail or panic before its right-hand       *)
(* neighbour is evaluated                                                  *)
RowCmds ==
    WriteCmds \cup LeafCmds
    \cup {Unr(f, a) : f \in {"First", "Len"}, a \in LeafCmds \cup WriteCmds}
    \cup {Bin(f, a, b) : f \in {"Add", "Div"}, a \in LeafCmds \cup WriteCmds, b \in LeafCmds}
    \cup {Bin("Add", a, b) : a \in {Bin("Add", Key("age"), Key("name")), Key("age")},
                             b \in WriteCmds \cup {Key("name")}}
    \cup {Unr("Min", Key("age")), Unr("Last", Unr("First", Node("Delete")))}
    \cup {Has("name"), Has("zz"), Get("age", Json(Row3)), Get("zz", Key("age")),
          Get("age", Node("Set"))}

(* the commands handed to apply *)
ValueCmds == RowCmds \cup {Unr("Max", Key("age")), Unr("Max", Node("Pop"))}

Eval(cmd, out) ==
    /\ res' = out
    /\ last' = cmd
    /\ pc' = "done"
    /\ UNCHANGED <<cache, codec>>

Add ==
    /\ pc = "idle"
    /\ \E x \in Operands, y \in Operands : Eval([op |-> "add", x |-> x, y |-> y], json_add(x, y))

Sub ==
    /\ pc = "idle"
    /\ \E x \in Operands, y \in Operands : Eval([op |-> "sub", x |-> x, y |-> y], json_sub(x, y))

Mul ==
    /\ pc = "idle"
    /\ \E x \in Operands, y \in Operands : Eval([op |-> "mul", x |-> x, y |-> y], json_mul(x, y))

Div ==
    /\ pc = "idle"
    /\ \E x \in Operands, y \in Operands : Eval([op |-> "div", x |-> x, y |-> y], json_div(x, y))

(* The functions of json.rs over one value; checked is whether the build   *)
(* checks arithmetic overflow                                              *)
json_fn(op, x, checked) ==
    CASE op = "first" -> Ok(json_first(x))
      [] op = "last" -> Ok(json_last(x))
      [] op = "max" -> Ok(json_max(x))
      [] op = "min" -> Ok(json_min(x))
      [] op = "sum" -> Ok(json_sum(x))
      [] op = "avg" -> json_avg(x)
      [] op = "var" -> json_var(x, checked)
      [] op = "unique" -> Ok(json_unique(x))

Aggregate ==
    /\ pc = "idle"
    /\ \E op \in {"first", "last", "max", "min", "sum", "avg", "var", "unique"},
          x \in Operands \cup Repeats \cup {TestArray}, checked \in BOOLEAN :
          Eval([op |-> op, x |-> x], json_fn(op, x, checked))

Apply ==
    /\ pc = "idle"
    /\ \E cmd \in ValueCmds, val \in ApplyVals :
          Eval([op |-> "apply", cmd |-> cmd, x |-> val], apply(cmd, val))

ApplyRows ==
    /\ pc = "idle"
    /\ \E cmd \in RowCmds, rows \in RowSeqs :
          Eval([op |-> "apply_rows", cmd |-> cmd, x |-> JArr(rows)], apply_rows(cmd, rows))

(* Rows whose field age is a Number, a String or missing, and a row that   *)
(* is no Object                                                            *)
FoldRows ==
    UNION {[1..n -> {Row1, Row3, JObj([age |-> JStr("ania")]),
                     JObj([name |-> JStr("ania")]), JInt(1)}] : n \in 0..(MaxLen + 1)}

(* apply_rows(Max(Key(k)), rows) under one of the schedules of the workers *)
ApplyMax ==
    /\ pc = "idle"
    /\ \E rows \in FoldRows : \E val \in par_max("age", rows) :
          Eval([op |-> "apply_max", k |-> "age", x |-> JArr(rows)],
               Ok(IF val.some THEN val.v ELSE JNull))

ValueNext ==
    Add \/ Sub \/ Mul \/ Div \/ Aggregate \/ Apply \/ ApplyRows \/ ApplyMax \/ Return

ValueSpec == Init /\ [][ValueNext]_vars

-----------------------------------------------------------------------------
(* inmemdb.rs: the evaluation of a command tree over the store *)

(* Command nodes that write; k is the key of the entry, a name that is    *)
(* looked up in the map and never split                                    *)
SetCmd(k, arg) == [c |-> "Set", k |-> k, arg |-> arg]

AppendCmd(k, arg) == [c |-> "Append", k |-> k, arg |-> arg]

PopCmd(k) == [c |-> "Pop", k |-> k]

DeleteCmd(k) == [c |-> "Delete", k |-> k]

(* arr_pop that hands out the last element and leaves it in the array *)
json_pop_peek(val) ==
    CASE val.t # "arr" -> [res |-> Err("ExpectedArr"), val |-> val]
      [] val.t = "arr" /\ val.v = << >> -> [res |-> Ok(None), val |-> val]
      [] OTHER -> [res |-> Ok(Some(val.v[Len(val.v)])), val |-> val]

(* json_pop over arr_pop: the last element of an Array, which loses it *)
json_pop(val) ==
    CASE val.t # "arr" -> [res |-> Err("ExpectedArr"), val |-> val]
      [] val.t = "arr" /\ val.v = << >> -> [res |-> Ok(None), val |-> val]
      [] OTHER -> [res |-> Ok(Some(val.v[Len(val.v)])),
                   val |-> JArr(SubSeq(val.v, 1, Len(val.v) - 1))]

(* Cmd::Pop(key): InMemDb::pop over get_mut, None mapped to Null *)
eval_Pop(db, k) ==
    IF k \notin DOMAIN db THEN [res |-> ErrUnknownKey(k), db |-> db]
    ELSE LET out == json_pop(db[k])
         IN [res |-> IF out.res.kind # "ok" THEN out.res
                     ELSE Ok(IF out.res.val.some THEN out.res.val.v ELSE JNull),
             db |-> obj_insert(db, k, out.val)]

(* InMemDb::eval: the outcome and the store after it.  An argument is      *)
(* evaluated on the store as the arguments before it left it, and `?`      *)
(* returns its error with the store as it is by then.                      *)
RECURSIVE eval(_, _)
(* InMemDb::eval_bin_fn *)
eval_bin_fn(db, kind, lhs, rhs) ==
    LET l == eval(db, lhs)
    IN IF l.res.kind # "ok" THEN l
       ELSE LET r == eval(l.db, rhs)
            IN IF r.res.kind # "ok" THEN r
               ELSE [res |-> bin_fn(kind, l.res.val, r.res.val), db |-> r.db]

(* The same, the store put back as it was when an operand fails *)
eval_bin_fn_restoring(db, kind, lhs, rhs) ==
    LET out == eval_bin_fn(db, kind, lhs, rhs)
    IN IF out.res.kind # "ok" THEN [res |-> out.res, db |-> db] ELSE out

eval(db, cmd) ==
    CASE cmd.c = "Json" -> [res |-> Ok(cmd.val), db |-> db]
      [] cmd.c = "Key" -> eval_Key(db, cmd.key)
      [] cmd.c = "Delete" -> eval_Delete(db, cmd.k)
      [] cmd.c = "Pop" -> eval_Pop(db, cmd.k)
      [] cmd.c = "Set" ->
            LET val == eval(db, cmd.arg)
            IN IF val.res.kind # "ok" THEN val ELSE eval_Set(val.db, cmd.k, val.res.val)
      [] cmd.c = "Append" ->
            LET val == eval(db, cmd.arg)
            IN IF val.res.kind # "ok" THEN val
               ELSE eval_Append(val.db, cmd.k, val.res.val)
      [] cmd.c \in BinFns -> eval_bin_fn(db, cmd.c, cmd.lhs, cmd.rhs)

-----------------------------------------------------------------------------
(* The store under command trees: one call of InMemDb::eval per step *)

(* What an entry is set to or given by Append *)
StoreVals ==
    {JNull, JInt(1), JArr(<< >>), Row3, JObj([age |-> JInt(35), name |-> JStr("james")])}

StoreKeys == {"t", "s"}

(* The arguments of a node: literals, a key that is absent, writes *)
Literals == {Json(val) : val \in StoreVals}

Writes ==
    {SetCmd("t", Json(JInt(1))), AppendCmd("t", Json(JInt(1))), PopCmd("t"), DeleteCmd("t")}

Failing == {Key(<<"zz">>), PopCmd("zz"), PopCmd("s"), Bin("Add", Json(JInt(1)), Json(JNull))}

(* What Set and Append are given.  Set and Delete return the entry they    *)
(* replace, which as an argument would nest the entry in itself without    *)
(* bound; Pop, which returns one element, is the write among them.         *)
Args == Literals \cup Failing \cup {PopCmd("t")}

(* No array of the store is longer than MaxRows *)
Bounded(db) == \A k \in DOMAIN db : db[k].t = "arr" => Len(db[k].v) <= MaxRows

Evaluate(cmd) ==
    LET out == eval(cache, cmd)
    IN /\ Bounded(out.db)
       /\ cache' = out.db
       /\ res' = out.res
       /\ last' = [op |-> "eval", cmd |-> cmd, db |-> cache]
       /\ pc' = "done"
       /\ UNCHANGED codec

EvalSet ==
    /\ pc = "idle"
    /\ \E in \in ({"t"} \X Args) \cup ({"s"} \X (Failing \cup {Json(JInt(1))})) :
          Evaluate(SetCmd(in[1], in[2]))

EvalAppend ==
    /\ pc = "idle"
    /\ \E arg \in Args : Evaluate(AppendCmd("t", arg))

EvalPop ==
    /\ pc = "idle"
    /\ \E k \in StoreKeys \cup {"zz"} : Evaluate(PopCmd(k))

EvalDelete ==
    /\ pc = "idle"
    /\ \E k \in StoreKeys : Evaluate(DeleteCmd(k))

EvalBin ==
    /\ pc = "idle"
    /\ \E lhs, rhs \in Writes \cup Failing \cup {Json(JInt(1))} :
          Evaluate(Bin("Add", lhs, rhs))

StoreNext == EvalSet \/ EvalAppend \/ EvalPop \/ EvalDelete \/ EvalBin \/ Return

StoreSpec == Init /\ [][StoreNext]_vars

-----------------------------------------------------------------------------
(* codec.rs: length-prefixed frames *)

(* The values of a u16 *)
U16 == 65536

(* MemsonRequest and MemsonResponse; the String of Command and of Data is  *)
(* data letters "a"                                                        *)
Command(data) == [ty |-> "MemsonRequest", cmd |-> "Command", data |-> data]

Data(data) == [ty |-> "MemsonResponse", cmd |-> "Data", data |-> data]

Ping(ty) == [ty |-> ty, cmd |-> "Ping", data |-> 0]

Variants(ty) == IF ty = "MemsonRequest" THEN {"Command", "Ping"} ELSE {"Data", "Ping"}

(* json::to_string of a message up to its String: {"cmd":"Command","data":" *)
(* and {"cmd":"Data","data":"; a Ping is {"cmd":"Ping"}                     *)
Opening(cmd) ==
    CASE cmd = "Command" ->
            <<123, 34, 99, 109, 100, 34, 58, 34, 67, 111, 109, 109, 97, 110, 100, 34,
              44, 34, 100, 97, 116, 97, 34, 58, 34>>
      [] cmd = "Data" ->
            <<123, 34, 99, 109, 100, 34, 58, 34, 68, 97, 116, 97, 34,
              44, 34, 100, 97, 116, 97, 34, 58, 34>>
      [] cmd = "Ping" -> <<123, 34, 99, 109, 100, 34, 58, 34, 80, 105, 110, 103, 34, 125>>

(* The number of bytes of json::to_string(&msg) *)
to_string_len(msg) ==
    IF msg.cmd = "Ping" THEN Len(Opening(msg.cmd)) ELSE Len(Opening(msg.cmd)) + msg.data + 2

(* Its i-th byte: the opening, the letters, then "} *)
to_string_at(msg, i) ==
    LET open == Opening(msg.cmd)
    IN CASE i <= Len(open) -> open[i]
         [] i > Len(open) /\ i <= Len(open) + msg.data -> 97
         [] i = Len(open) + msg.data + 1 -> 34
         [] OTHER -> 125

(* The p-th byte of what encode writes for msg: put_u16(len as u16), big   *)
(* endian, then the text                                                   *)
encoded_at(msg, p) ==
    CASE p = 1 -> (to_string_len(msg) % U16) \div 256
      [] p = 2 -> (to_string_len(msg) % U16) % 256
      [] OTHER -> to_string_at(msg, p - 2)

(* A buffer is a sequence of runs [msg, lo, hi]: the bytes lo..hi of what  *)
(* encode writes for msg.  Runs that continue one another are one run.     *)
Run(msg, lo, hi) == [msg |-> msg, lo |-> lo, hi |-> hi]

(* Encoder::encode: the bytes put on dst *)
encode(msg) == <<Run(msg, 1, 2 + to_string_len(msg))>>

(* BytesMut::len *)
RECURSIVE buf_len(_)
buf_len(b) == IF b = << >> THEN 0 ELSE (Head(b).hi - Head(b).lo + 1) + buf_len(Tail(b))

(* The i-th byte of a buffer *)
RECURSIVE buf_at(_, _)
buf_at(b, i) ==
    LET p == Head(b)
        w == p.hi - p.lo + 1
    IN IF i <= w THEN encoded_at(p.msg, p.lo + i - 1) ELSE buf_at(Tail(b), i - w)

(* BigEndian::read_u16 of the first two bytes *)
read_u16(b) == buf_at(b, 1) * 256 + buf_at(b, 2)

(* Buf::advance(n): the buffer without its first n bytes *)
RECURSIVE advance(_, _)
advance(b, n) ==
    IF n = 0 \/ b = << >> THEN b
    ELSE LET p == Head(b)
             w == p.hi - p.lo + 1
         IN IF n >= w THEN advance(Tail(b), n - w)
            ELSE <<Run(p.msg, p.lo + n, p.hi)>> \o Tail(b)

(* The first n bytes of a buffer, which BytesMut::split_to(n) returns *)
RECURSIVE split_to(_, _)
split_to(b, n) ==
    IF n = 0 \/ b = << >> THEN << >>
    ELSE LET p == Head(b)
             w == p.hi - p.lo + 1
         IN IF n >= w THEN <<p>> \o split_to(Tail(b), n - w)
            ELSE <<Run(p.msg, p.lo, p.lo + n - 1)>>

(* The bytes of b followed by those of c *)
extend(b, c) ==
    IF b = << >> \/ c = << >> THEN b \o c
    ELSE LET p == b[Len(b)]
             q == Head(c)
         IN IF p.msg = q.msg /\ q.lo = p.hi + 1
            THEN SubSeq(b, 1, Len(b) - 1) \o <<Run(p.msg, p.lo, q.hi)>> \o Tail(c)
            ELSE b \o c

(* json::from_slice::<ty>: the message whose text the bytes are, an error  *)
(* for bytes that are not the whole text of one message of the type        *)
from_slice(ty, buf) ==
    IF /\ Len(buf) = 1
       /\ buf[1].lo = 3
       /\ buf[1].hi = 2 + to_string_len(buf[1].msg)
       /\ buf[1].msg.cmd \in Variants(ty)
    THEN Ok([buf[1].msg EXCEPT !.ty = ty])
    ELSE Err("InvalidData")

(* Decoder::decode, which asks for more than the frame before it decodes *)
decode_more(ty, b) ==
    IF buf_len(b) < 2 THEN [res |-> Ok(None), src |-> b]
    ELSE LET size == read_u16(b)
         IN IF buf_len(b) > size + 2
            THEN LET item == from_slice(ty, split_to(advance(b, 2), size))
                 IN [res |-> IF item.kind = "ok" THEN Ok(Some(item.val)) ELSE item,
                     src |-> advance(b, 2 + size)]
            ELSE [res |-> Ok(None), src |-> b]

(* Decoder::decode: the item, if the buffer holds a whole frame, and the   *)
(* buffer after the call                                                   *)
decode(ty, b) ==
    IF buf_len(b) < 2 THEN [res |-> Ok(None), src |-> b]
    ELSE LET size == read_u16(b)
         IN IF buf_len(b) >= size + 2
            THEN LET item == from_slice(ty, split_to(advance(b, 2), size))
                 IN [res |-> IF item.kind = "ok" THEN Ok(Some(item.val)) ELSE item,
                     src |-> advance(b, 2 + size)]
            ELSE [res |-> Ok(None), src |-> b]

-----------------------------------------------------------------------------
(* One direction of a connection: messages are encoded onto dst, reach src *)
(* in chunks, and are decoded from src.                                    *)

(* the messages a run encodes *)
MaxMsgs == 2

(* the bytes src may hold after a chunk of one or two bytes is added *)
MaxPartial == 3

(* Requests whose text is 14, 27, 28, 65535 and 65536 bytes long *)
Requests == {Ping("MemsonRequest")} \cup {Command(n) : n \in {0, 1, 65508, 65509}}

(* Responses whose text is 14, 24, 65535 and 65537 bytes long *)
Responses == {Ping("MemsonResponse")} \cup {Data(n) : n \in {0, 65511, 65513}}

(* The type of the messages of this direction, once one is sent *)
Carries(ty) == IF sent = << >> THEN TRUE ELSE sent[1].ty = ty

Encoded(msg) ==
    /\ Carries(msg.ty)
    /\ dst' = extend(dst, encode(msg))
    /\ sent' = Append(sent, msg)
    /\ last' = [op |-> "encode", msg |-> msg, frame |-> encode(msg)]
    /\ res' = Ok(JNull)
    /\ UNCHANGED <<cache, pc, src, items>>

(* Encoder<MemsonRequest> for ClientMemsonCodec *)
EncodeRequest ==
    /\ Len(sent) < MaxMsgs
    /\ \E msg \in Requests : Encoded(msg)

(* Encoder<MemsonResponse> for MemsonCodec *)
EncodeResponse ==
    /\ Len(sent) < MaxMsgs
    /\ \E msg \in Responses : Encoded(msg)

(* The transport hands the next n bytes to the decoder's buffer *)
Deliver ==
    \E n \in {1, 2, buf_len(dst) - 1, buf_len(dst)} :
        /\ n >= 1
        /\ n <= buf_len(dst)
        /\ n < buf_len(dst) - 1 => buf_len(src) + n <= MaxPartial
        /\ src' = extend(src, split_to(dst, n))
        /\ dst' = advance(dst, n)
        /\ last' = [op |-> "deliver", n |-> n]
        /\ res' = NoRes
        /\ UNCHANGED <<cache, pc, sent, items>>

Decoded(ty) ==
    LET out == decode(ty, src)
    IN /\ src' = out.src
       /\ res' = out.res
       /\ items' = IF out.res.kind = "ok" /\ out.res.val.some
                 THEN Append(items, out.res.val.v) ELSE items
       /\ last' = [op |-> "decode", src |-> src]
       /\ UNCHANGED <<cache, pc, dst, sent>>

(* Decoder for MemsonCodec *)
DecodeRequest ==
    /\ Carries("MemsonRequest")
    /\ Decoded("MemsonRequest")

(* Decoder for ClientMemsonCodec *)
DecodeResponse ==
    /\ Carries("MemsonResponse")
    /\ Decoded("MemsonResponse")

CodecNext == EncodeRequest \/ EncodeResponse \/ Deliver \/ DecodeRequest \/ DecodeResponse

CodecSpec == Init /\ [][CodecNext]_vars

-----------------------------------------------------------------------------
(* What the properties below speak of *)

(* A query was evaluated last; it named an Array entry of the store *)
Queried == pc = "done" /\ last.op = "Query"

QueriedTable ==
    /\ Queried
    /\ last.cmd.from \in DOMAIN cache
    /\ cache[last.cmd.from].t = "arr"

Source == cache[last.cmd.from].v

Failed(e) == res.kind = "err" /\ res.val.v = e

AllObjects(rows) == \A i \in 1..Len(rows) : rows[i].t = "obj"

Indices(rows) == [i \in 1..Len(rows) |-> i]

FirstRows(rows, n) == [k \in 1..Min2(n, Len(rows)) |-> rows[k]]

(* row carrying `_id`: its own when it has one, i otherwise *)
Tagged(row, i) ==
    JObj([f \in (DOMAIN row.v) \cup {"_id"} |-> IF f \in DOMAIN row.v THEN row.v[f] ELSE JInt(i)])

(* The Object rows that pass filter, in source order, each tagged with its *)
(* index in rows                                                           *)
PassingRows(rows, filter) ==
    LET idx == SelectSeq(Indices(rows),
                         LAMBDA i : rows[i].t = "obj" /\ Filter_apply(filter, rows[i].v))
    IN [k \in 1..Len(idx) |-> Tagged(rows[idx[k]], idx[k] - 1)]

(* WHERE hands a row set to SELECT *)
WherePasses == last.cmd.filter.some => AllObjects(Source)

(* The row set SELECT works on *)
FilteredRows ==
    IF last.cmd.filter.some THEN PassingRows(Source, last.cmd.filter.v) ELSE Source

SelectAll == ~last.cmd.selects.some \/ DOMAIN last.cmd.selects.v = {}

-----------------------------------------------------------------------------
(* C1: a query whose `from` key is missing from the store, or names an     *)
(* entry that is not an Array, fails with BadFrom, whatever its selects,   *)
(* filter and by are: a value that is not an Array is never taken as a     *)
(* one-row table.                                                          *)
C1_BadFrom == (Queried /\ ~QueriedTable) => Failed("BadFrom")

C1_Witness ==
    /\ Queried
    /\ last.cmd.from \in DOMAIN cache
    /\ cache[last.cmd.from].t \in {"int", "obj"}
    /\ last.cmd.selects.some /\ last.cmd.filter.some /\ last.cmd.by.some
    /\ Failed("BadFrom")

-----------------------------------------------------------------------------
(* C2: with a filter, a source row that is not an Object is skipped and    *)
(* does not make the query fail: the query returns the Object rows that    *)
(* pass (select-all: the first Cap of them), whatever the source array     *)
(* holds.                                                                  *)
C2_NonObjectRowsSkipped ==
    (QueriedTable /\ last.cmd.filter.some /\ ~last.cmd.by.some /\ ~last.cmd.selects.some)
        => /\ res.kind = "ok"
           /\ res.val = JArr(FirstRows(PassingRows(Source, last.cmd.filter.v), Cap))

-----------------------------------------------------------------------------
(* C3, as stated: a query with a filter and no by/selects over Object rows *)
(* returns exactly the source rows that pass the filter, in source order,  *)
(* a row without `_id` tagged with its index in the source array, a row    *)
(* with `_id` keeping its own.                                             *)
C3_AllPassingRows ==
    (/\ QueriedTable /\ AllObjects(Source)
     /\ last.cmd.filter.some /\ ~last.cmd.by.some /\ ~last.cmd.selects.some)
        => /\ res.kind = "ok"
           /\ res.val = JArr(PassingRows(Source, last.cmd.filter.v))

(* C3, amended: a query with a filter and no by/selects over Object rows   *)
(* returns the first min(Cap, n) of the n source rows that pass the        *)
(* filter, in source order, a row without `_id` tagged with its index in   *)
(* the source array, a row with `_id` keeping its own.                     *)
C3_FirstPassingRows ==
    (/\ QueriedTable /\ AllObjects(Source)
     /\ last.cmd.filter.some /\ ~last.cmd.by.some /\ ~last.cmd.selects.some)
        => /\ res.kind = "ok"
           /\ res.val = JArr(FirstRows(PassingRows(Source, last.cmd.filter.v), Cap))

(* a returned row tagged with a source index that is not its place in the  *)
(* result, after a row that kept its own `_id`                             *)
C3_Witness ==
    /\ QueriedTable /\ AllObjects(Source)
    /\ last.cmd.filter.some /\ ~last.cmd.by.some /\ ~last.cmd.selects.some
    /\ res.kind = "ok"
    /\ Len(Source) = 2 /\ Len(res.val.v) = 1
    /\ "_id" \notin DOMAIN Source[2].v
    /\ res.val.v[1].v["_id"] = JInt(1)

-----------------------------------------------------------------------------
(* C4: a query, succeeding or failing, leaves the store as it was: the     *)
(* `_id` tags and the grouped or partial objects it builds are never       *)
(* written into the stored rows.                                           *)
C4_QueryReadOnly == [][(pc = "idle" /\ last'.op = "Query") => cache' = cache]_vars

(* a query returned a row with a generated `_id` the stored row lacks *)
C4_Witness ==
    /\ QueriedTable /\ ~last.cmd.by.some /\ SelectAll
    /\ res.kind = "ok" /\ Len(res.val.v) > 0
    /\ "_id" \in DOMAIN res.val.v[1].v
    /\ "_id" \notin DOMAIN Source[1].v

-----------------------------------------------------------------------------
-----------------------------------------------------------------------------
(* C6: without by, with a select map that is not empty and not             *)
(* all-aggregate (plain key selects, or aggregates mixed with others), the *)
(* result is an Array in source order of Objects, at most one per row,     *)
(* each carrying output fields only and at least one.                      *)
C6_NonAggregateArray ==
    (/\ QueriedTable /\ WherePasses /\ ~last.cmd.by.some
     /\ last.cmd.selects.some /\ DOMAIN last.cmd.selects.v # {}
     /\ \E n \in DOMAIN last.cmd.selects.v : ~is_aggregate(last.cmd.selects.v[n]))
        => /\ res.kind = "ok"
           /\ res.val.t = "arr"
           /\ Len(res.val.v) <= Len(FilteredRows)
           /\ \A k \in 1..Len(res.val.v) :
                /\ res.val.v[k].t = "obj"
                /\ DOMAIN res.val.v[k].v # {}
                /\ DOMAIN res.val.v[k].v \subseteq DOMAIN last.cmd.selects.v

-----------------------------------------------------------------------------
(* Grouping, as the properties below state it *)

ByKey == last.cmd.by.v.v

(* the string a by value is grouped under *)
json_to_string(val) == IF val.t = "str" THEN val.v ELSE ToString(val.v)

(* The indices of the rows that have the field key *)
Carrying(rows, key) == {i \in 1..Len(rows) : has_field(rows[i], key)}

(* The rows of the group named g, in source order *)
GroupRows(rows, key, g) ==
    LET idx == SelectSeq(Indices(rows),
                         LAMBDA i : i \in Carrying(rows, key)
                                    /\ json_to_string(rows[i].v[key]) = g)
    IN [k \in 1..Len(idx) |-> rows[idx[k]]]

GroupNames(rows, key) == {json_to_string(rows[i].v[key]) : i \in Carrying(rows, key)}

(* The sum of the lengths of the group arrays of a grouped result *)
GroupTotal(groups) ==
    Cardinality(UNION {{<<g, k>> : k \in 1..Len(groups[g].v)} : g \in DOMAIN groups})

ByValuesAreStrings(rows, key) == \A i \in Carrying(rows, key) : rows[i].v[key].t = "str"

NonCollapsing ==
    last.cmd.selects.some =>
        \A n \in DOMAIN last.cmd.selects.v : last.cmd.selects.v[n].c = "Key"

-----------------------------------------------------------------------------
(* C7: with by, the rows SELECT is given are partitioned into groups named *)
(* by the stringified value of their by field, whatever the type of that   *)
(* value (numeric ages give "10", "20", ...): the group names are the      *)
(* stringified by values, a group holds the rows whose by value            *)
(* stringifies to its name, and holds them in source order.                *)
C7_GroupsByStringifiedValue ==
    (/\ QueriedTable /\ WherePasses
     /\ last.cmd.by.some /\ last.cmd.by.v.t = "str" /\ ~last.cmd.selects.some)
        => /\ res.kind = "ok"
           /\ res.val.t = "obj"
           /\ DOMAIN res.val.v = GroupNames(FilteredRows, ByKey)
           /\ \A g \in DOMAIN res.val.v :
                LET group == GroupRows(FilteredRows, ByKey, g)
                IN /\ Len(res.val.v[g].v) = Len(group)
                   /\ \A k \in 1..Len(group) :
                        \A f \in DOMAIN res.val.v[g].v[k].v :
                            res.val.v[g].v[k].v[f] = group[k].v[f]

-----------------------------------------------------------------------------
(* C8, as stated: for a by query whose selects do not collapse the groups  *)
(* (no selects, or key selects only), the lengths of the group arrays sum  *)
(* to the number of rows SELECT is given.                                  *)
C8_GroupsHoldEveryRow ==
    (/\ QueriedTable /\ WherePasses
     /\ last.cmd.by.some /\ last.cmd.by.v.t = "str" /\ NonCollapsing
     /\ ByValuesAreStrings(FilteredRows, ByKey))
        => /\ res.kind = "ok"
           /\ GroupTotal(res.val.v) = Len(FilteredRows)

(* C8, amended: for a by query whose selects do not collapse the groups    *)
(* (no selects, or key selects only), the lengths of the group arrays sum  *)
(* to the number of rows SELECT is given that are Objects carrying the by  *)
(* field.                                                                  *)
C8_GroupsHoldCarryingRows ==
    (/\ QueriedTable /\ WherePasses
     /\ last.cmd.by.some /\ last.cmd.by.v.t = "str" /\ NonCollapsing
     /\ ByValuesAreStrings(FilteredRows, ByKey))
        => /\ res.kind = "ok"
           /\ GroupTotal(res.val.v) = Cardinality(Carrying(FilteredRows, ByKey))

(* two rows in one group, a row without the by field left out *)
C8_Witness ==
    /\ QueriedTable /\ WherePasses
    /\ last.cmd.by.some /\ last.cmd.by.v.t = "str" /\ NonCollapsing
    /\ ByValuesAreStrings(FilteredRows, ByKey)
    /\ res.kind = "ok"
    /\ Len(FilteredRows) = 3
    /\ Cardinality(Carrying(FilteredRows, ByKey)) = 2
    /\ \E g \in DOMAIN res.val.v : Len(res.val.v[g].v) = 2
    /\ GroupTotal(res.val.v) = 2

-----------------------------------------------------------------------------
(* C9: with by and no selects, each group holds the rows of the group as   *)
(* they are given to SELECT (every field, a `_id` that WHERE generated     *)
(* included) with the by field removed and nothing else changed.           *)
C9_GroupsHoldStrippedRows ==
    (/\ QueriedTable /\ WherePasses
     /\ last.cmd.by.some /\ last.cmd.by.v.t = "str" /\ ~last.cmd.selects.some
     /\ ByValuesAreStrings(FilteredRows, ByKey))
        => /\ res.kind = "ok"
           /\ \A g \in DOMAIN res.val.v :
                LET group == GroupRows(FilteredRows, ByKey, g)
                IN res.val.v[g] =
                     JArr([k \in 1..Len(group) |->
                            JObj([f \in (DOMAIN group[k].v) \ {ByKey} |-> group[k].v[f]])])

(* a grouped row that keeps the `_id` WHERE generated and its other fields *)
C9_Witness ==
    /\ QueriedTable /\ last.cmd.filter.some
    /\ last.cmd.by = Some(JStr("name")) /\ ~last.cmd.selects.some
    /\ res.kind = "ok"
    /\ Len(Source) = 2 /\ AllObjects(Source)
    /\ "_id" \notin DOMAIN Source[2].v
    /\ "ania" \in DOMAIN res.val.v
    /\ res.val.v["ania"].v[1].v = [_id |-> JInt(1), age |-> JInt(28), job |-> JStr("teacher")]

-----------------------------------------------------------------------------
(* C10: with no by and selects absent or an empty map, over rows that are  *)
(* Objects, the result is the Array of the first min(Cap, n) of the n rows *)
(* SELECT is given, in order, each carrying an `_id`.                      *)
C10_SelectAllCap ==
    (/\ QueriedTable /\ WherePasses /\ ~last.cmd.by.some /\ SelectAll
     /\ AllObjects(FirstRows(FilteredRows, Cap)))
        => /\ res.kind = "ok"
           /\ res.val.t = "arr"
           /\ Len(res.val.v) = Min2(Cap, Len(FilteredRows))
           /\ \A k \in 1..Len(res.val.v) :
                /\ res.val.v[k] = Tagged(FilteredRows[k], k - 1)
                /\ "_id" \in DOMAIN res.val.v[k].v

(* more than Cap rows given, Cap rows returned *)
C10_Witness ==
    /\ QueriedTable /\ ~last.cmd.by.some /\ last.cmd.selects = Some(EmptyObj)
    /\ Len(FilteredRows) > Cap
    /\ res.kind = "ok" /\ Len(res.val.v) = Cap

-----------------------------------------------------------------------------
(* Store-scoped keys, as the properties below state them *)

KeyAsked == pc = "done" /\ last.op = "Key"

HasDot(k) == \E i \in 1..Len(k) : k[i] = "."

(* the characters before the first dot *)
FirstSegment(k) == IF Head(k) = "." THEN "" ELSE Head(k)

(* Projecting the segments it[i..] one after the other from val, stopping  *)
(* at the first that is missing                                            *)
RECURSIVE Projected(_, _, _)
Projected(val, it, i) ==
    IF i > Len(it) THEN Some(val)
    ELSE LET found == json_get(it[i], val)
         IN IF found.some THEN Projected(found.v, it, i + 1) ELSE None

-----------------------------------------------------------------------------
(* C11: Key(k) leaves the store unchanged; when the store has no entry for *)
(* k (for a dotted k: for its first segment) it fails with UnknownKey      *)
(* carrying the whole key asked for; when the entry exists and k has no    *)
(* dot it returns the stored value.                                        *)
C11_KeyLookup ==
    [][(pc = "idle" /\ last'.op = "Key") =>
          /\ cache' = cache
          /\ FirstSegment(last'.key) \notin DOMAIN cache
                => res' = ErrUnknownKey(key_string(last'.key))
          /\ (FirstSegment(last'.key) \in DOMAIN cache /\ ~HasDot(last'.key))
                => res' = Ok(cache[FirstSegment(last'.key)])]_vars

(* a dotted key whose first segment is not stored, while another key is *)
C11_Witness ==
    /\ KeyAsked /\ HasDot(last.key)
    /\ cache # EmptyObj
    /\ res.kind = "err" /\ res.val.v = "UnknownKey" /\ res.val.key = "zz.a"

-----------------------------------------------------------------------------
(* C12: Key("s0.s1...sn") projects s1, then s2, ... from the value found   *)
(* so far; when a segment after the first is missing from the value        *)
(* reached so far the lookup yields Null or nothing, not the top-level     *)
(* entry and not what later segments give.                                 *)
C12_DottedLookup ==
    (KeyAsked /\ FirstSegment(last.key) \in DOMAIN cache) =>
        LET found == Projected(cache[FirstSegment(last.key)], split(last.key), 2)
        IN IF found.some THEN res = Ok(found.v)
           ELSE res.kind = "err" \/ res = Ok(JNull)

-----------------------------------------------------------------------------
(* C13: Set(k, arg) stores the value of arg under k, returns the value     *)
(* stored under k before (Null when there was none) and leaves every other *)
(* entry as it was; the store is the same when the next command is taken,  *)
(* and Key(k) then returns the value stored under k.                       *)
C13_SetKeyRoundTrip ==
    [][/\ (/\ pc = "idle" /\ last'.op = "Set"
           /\ eval_arg(cache, last'.arg).kind = "ok")
            => /\ res' = Ok(IF last'.key \in DOMAIN cache THEN cache[last'.key] ELSE JNull)
               /\ DOMAIN cache' = DOMAIN cache \cup {last'.key}
               /\ cache'[last'.key] = eval_arg(cache, last'.arg).val
               /\ \A k \in DOMAIN cache \ {last'.key} : cache'[k] = cache[k]
       /\ pc = "done" => cache' = cache
       /\ (/\ pc = "idle" /\ last'.op = "Key"
           /\ ~HasDot(last'.key) /\ FirstSegment(last'.key) \in DOMAIN cache)
            => res' = Ok(cache[FirstSegment(last'.key)])]_vars

(* a Set that replaced a value, returned it and left another entry alone *)
C13_Witness ==
    /\ pc = "done" /\ last.op = "Set" /\ last.key = "s"
    /\ res.kind = "ok" /\ res.val = Nested
    /\ cache["s"] = JInt(5)
    /\ "t" \in DOMAIN cache

-----------------------------------------------------------------------------
(* Row-scoped evaluation *)

Applied == pc = "done" /\ last.op = "apply"

AppliedRows == pc = "done" /\ last.op = "apply_rows"

(* The nodes that write to the store or run a query *)
WriteKinds == {"Set", "Append", "Delete", "Insert", "Pop", "Query"}

(* The evaluation of cmd by apply over val reaches a write node: the node  *)
(* is cmd itself or lies in an argument, and every argument evaluated      *)
(* before it gave a value.                                                 *)
RECURSIVE ReachesWrite(_, _)
ReachesWrite(cmd, val) ==
    CASE cmd.c \in WriteKinds -> TRUE
      [] cmd.c \in UnrFns \cup {"Get"} -> ReachesWrite(cmd.arg, val)
      [] cmd.c \in BinFns ->
            \/ ReachesWrite(cmd.lhs, val)
            \/ apply(cmd.lhs, val).kind = "ok" /\ ReachesWrite(cmd.rhs, val)
      [] OTHER -> FALSE

(* The same for apply_rows over rows *)
RECURSIVE ReachesWriteRows(_, _)
ReachesWriteRows(cmd, rows) ==
    CASE cmd.c \in WriteKinds -> TRUE
      [] cmd.c \in UnrFns \cup {"Get"} -> ReachesWriteRows(cmd.arg, rows)
      [] cmd.c \in BinFns ->
            \/ ReachesWriteRows(cmd.lhs, rows)
            \/ apply_rows(cmd.lhs, rows).kind = "ok" /\ ReachesWriteRows(cmd.rhs, rows)
      [] OTHER -> FALSE

(* C14: row-scoped evaluation is read-only.  In apply and in apply_rows a  *)
(* Set, Append, Delete, Insert, Pop or Query node at the root fails with   *)
(* BadCmd whatever the input, and a tree whose evaluation reaches such a   *)
(* node returns an error, never a value.                                   *)
C14_RowScopedReadOnly ==
    /\ Applied =>
          /\ last.cmd.c \in WriteKinds => res = Err("BadCmd")
          /\ ReachesWrite(last.cmd, last.x) => res.kind = "err"
    /\ AppliedRows =>
          /\ last.cmd.c \in WriteKinds => res = Err("BadCmd")
          /\ ReachesWriteRows(last.cmd, last.x.v) => res.kind = "err"

(* A Delete node is reached as the right-hand argument of a binary node    *)
(* whose left-hand argument gave a value.                                  *)
C14_Witness ==
    /\ Applied
    /\ last.cmd.c \in BinFns
    /\ last.cmd.rhs.c = "Delete"
    /\ apply(last.cmd.lhs, last.x).kind = "ok"
    /\ res = Err("BadCmd")

(* An Object that has field k *)
HasField(x, k) == x.t = "obj" /\ k \in DOMAIN x.v

(* The k-fields of the elements of arr that have one, in element order *)
RECURSIVE FieldsOf(_, _)
FieldsOf(k, arr) ==
    IF arr = << >> THEN << >>
    ELSE (IF HasField(Head(arr), k) THEN <<Head(arr).v[k]>> ELSE << >>)
         \o FieldsOf(k, Tail(arr))

(* C15: row-scoped Key(k).  On an Array (and on the rows of apply_rows)    *)
(* the result is the array, in element order, of the k-field of exactly    *)
(* the elements that have field k: it has as many elements as the input    *)
(* has elements with field k, [] when none has.  On an Object it is the    *)
(* value of field k, Null when the object lacks k.                         *)
C15_RowScopedKey ==
    /\ (Applied /\ last.cmd.c = "Key" /\ last.x.t = "arr") =>
          /\ res = Ok(JArr(FieldsOf(last.cmd.key, last.x.v)))
          /\ Len(res.val.v) =
                Cardinality({i \in 1..Len(last.x.v) : HasField(last.x.v[i], last.cmd.key)})
    /\ (Applied /\ last.cmd.c = "Key" /\ last.x.t = "obj") =>
          res = Ok(IF HasField(last.x, last.cmd.key) THEN last.x.v[last.cmd.key] ELSE JNull)
    /\ (AppliedRows /\ last.cmd.c = "Key") =>
          /\ res = Ok(JArr(FieldsOf(last.cmd.key, last.x.v)))
          /\ Len(res.val.v) =
                Cardinality({i \in 1..Len(last.x.v) : HasField(last.x.v[i], last.cmd.key)})

(* Key over an array of two elements of which only the second has the      *)
(* field: the result holds one value.                                      *)
C15_Witness ==
    /\ Applied
    /\ last.cmd.c = "Key"
    /\ last.x.t = "arr"
    /\ Len(last.x.v) = 2
    /\ ~HasField(last.x.v[1], last.cmd.key)
    /\ HasField(last.x.v[2], last.cmd.key)
    /\ res.kind = "ok"
    /\ Len(res.val.v) = 1

-----------------------------------------------------------------------------
(* Arithmetic *)

Called(op) == pc = "done" /\ last.op = op

(* An array whose elements are all Numbers *)
NumberArray(x) == x.t = "arr" /\ \A i \in 1..Len(x.v) : is_number(x.v[i])

(* add of an array of numbers and a numeric scalar, in this order *)
Broadcast == Called("add") /\ NumberArray(last.x) /\ is_number(last.y)

(* C16 as claimed: for every array a of n numbers and every numeric scalar *)
(* s, add(a, s) is an array of length n whose i-th element equals          *)
(* add(a[i], s) as a Value, integer/float kind included, and add(s, a) is  *)
(* the same array.                                                         *)
C16_BroadcastSameValue ==
    Broadcast =>
        /\ res.kind = "ok"
        /\ res.val.t = "arr"
        /\ Len(res.val.v) = Len(last.x.v)
        /\ \A i \in 1..Len(last.x.v) : Ok(res.val.v[i]) = json_add(last.x.v[i], last.y)
        /\ json_add(last.y, last.x) = res

(* C16 as amended: add(a, s) is an array of length n whose i-th element is *)
(* a float Number with the numeric value of add(a[i], s), also when a[i]   *)
(* and s are both integers; add(s, a) is the same array.                   *)
C16_BroadcastFloat ==
    Broadcast =>
        /\ res.kind = "ok"
        /\ res.val.t = "arr"
        /\ Len(res.val.v) = Len(last.x.v)
        /\ \A i \in 1..Len(last.x.v) :
              /\ res.val.v[i].t = "float"
              /\ res.val.v[i].v = Number_as_f64(json_add(last.x.v[i], last.y).val)
        /\ json_add(last.y, last.x) = res

(* An integer scalar is added to an array of two integers *)
C16_Witness ==
    /\ Broadcast
    /\ Len(last.x.v) = 2
    /\ is_i64(last.x.v[1]) /\ is_i64(last.x.v[2]) /\ is_i64(last.y)
    /\ res.kind = "ok"
    /\ json_add(last.x.v[1], last.y).val.t = "int"

(* The operation an arithmetic call applies *)
json_op(op, x, y) ==
    CASE op = "add" -> json_add(x, y)
      [] op = "sub" -> json_sub(x, y)
      [] op = "mul" -> json_mul(x, y)
      [] op = "div" -> json_div(x, y)

ArithOps == {"add", "sub", "mul", "div"}

(* C17: array-array zip.  For arrays x and y, add(x, y), and likewise sub, *)
(* mul and div, has length min(len x, len y) and its i-th element equals   *)
(* the operation applied to x[i] and y[i] (for the pairs the operation is  *)
(* defined on); the surplus of the longer operand is ignored.              *)
C17_ZipElementwise ==
    \A op \in ArithOps :
        (/\ Called(op)
         /\ last.x.t = "arr"
         /\ last.y.t = "arr"
         /\ \A i \in 1..zip_len(last.x.v, last.y.v) :
               json_op(op, last.x.v[i], last.y.v[i]).kind = "ok") =>
            /\ res.kind = "ok"
            /\ res.val.t = "arr"
            /\ Len(res.val.v) = zip_len(last.x.v, last.y.v)
            /\ \A i \in 1..zip_len(last.x.v, last.y.v) :
                  Ok(res.val.v[i]) = json_op(op, last.x.v[i], last.y.v[i])

(* The operand pairings an operation supports: Number-Number, Array-Array  *)
(* (pair by pair), Array-Number and Number-Array over an array of Numbers, *)
(* and for add String-String and a String with an array of Strings.        *)
RECURSIVE Supported(_, _, _)
Supported(op, x, y) ==
    CASE is_number(x) /\ is_number(y) -> TRUE
      [] x.t = "arr" /\ y.t = "arr" ->
            \A i \in 1..zip_len(x.v, y.v) : Supported(op, x.v[i], y.v[i])
      [] x.t = "arr" /\ is_number(y) -> \A i \in 1..Len(x.v) : is_number(x.v[i])
      [] is_number(x) /\ y.t = "arr" -> \A i \in 1..Len(y.v) : is_number(y.v[i])
      [] x.t = "str" /\ y.t = "str" -> op = "add"
      [] x.t = "str" /\ y.t = "arr" -> op = "add" /\ \A i \in 1..Len(y.v) : y.v[i].t = "str"
      [] x.t = "arr" /\ y.t = "str" -> op = "add" /\ \A i \in 1..Len(x.v) : x.v[i].t = "str"
      [] OTHER -> FALSE

(* C18: arithmetic type errors.  add, sub, mul and div return BadType for  *)
(* every operand pairing outside the supported ones, also when the         *)
(* unsupported pairing is between elements inside array operands; the      *)
(* operation never aborts instead of returning the error.                  *)
C18_BadTypeNeverAborts ==
    \A op \in ArithOps :
        Called(op) =>
            /\ res.kind # "panic"
            /\ ~Supported(op, last.x, last.y) => res = Err("BadType")

(* C19: numeric result kind.  add of two integer Numbers is an integer     *)
(* Number, add with at least one float operand is a float, and sub, mul    *)
(* and div of two Numbers are always a float Number.                       *)
C19_ResultKind ==
    \A op \in ArithOps :
        (Called(op) /\ is_number(last.x) /\ is_number(last.y)) =>
            /\ res.kind = "ok"
            /\ res.val.t = IF op = "add" /\ last.x.t = "int" /\ last.y.t = "int"
                           THEN "int" ELSE "float"

(* C20: aggregate-on-scalar identity.  For every Value v that is not an    *)
(* array (Null, Bool, Number, String, Object) first(v), last(v), min(v)    *)
(* and max(v) return v itself, and so they do for the empty array.         *)
C20_ScalarIdentity ==
    \A op \in {"first", "last", "min", "max"} :
        (Called(op) /\ (last.x.t # "arr" \/ last.x.v = << >>)) => res = Ok(last.x)

(* max of the empty array is the empty array *)
C20_Witness == Called("max") /\ last.x = JArr(<< >>) /\ res = Ok(JArr(<< >>))

-----------------------------------------------------------------------------
(* Aggregates over one value *)

(* C21: sum and avg on a scalar are the identity.  For every value v that  *)
(* is not an array, Bool, String and Null included, sum(v) returns v and   *)
(* avg(v) returns v, without an error.                                     *)
C21_SumAvgIdentity ==
    \A op \in {"sum", "avg"} : (Called(op) /\ last.x.t # "arr") => res = Ok(last.x)

(* The index at which a value first occurs in a sequence *)
FirstAt(x, e) == CHOOSE i \in 1..Len(x) : x[i] = e /\ \A j \in 1..(i - 1) : x[j] # e

(* C22: unique is idempotent and order-preserving.  For every array x,     *)
(* unique(x) holds each distinct element of x exactly once, in the order   *)
(* of first occurrence, and unique(unique(x)) = unique(x); on a value that *)
(* is not an array unique returns the value unchanged.                     *)
C22_UniqueOrdered ==
    Called("unique") =>
        /\ res.kind = "ok"
        /\ last.x.t # "arr" => res.val = last.x
        /\ last.x.t = "arr" =>
              LET x == last.x.v
                  u == res.val.v
              IN /\ res.val.t = "arr"
                 /\ {u[i] : i \in 1..Len(u)} = {x[i] : i \in 1..Len(x)}
                 /\ \A i, j \in 1..Len(u) : i # j => u[i] # u[j]
                 /\ \A i, j \in 1..Len(u) : i < j => FirstAt(x, u[i]) < FirstAt(x, u[j])
                 /\ json_unique(res.val) = res.val

(* An array whose first element occurs again after a different one *)
C22_Witness ==
    /\ Called("unique")
    /\ last.x.t = "arr"
    /\ Len(last.x.v) = 3
    /\ last.x.v[1] = last.x.v[3]
    /\ last.x.v[1] # last.x.v[2]
    /\ res.kind = "ok"
    /\ Len(res.val.v) = 2

(* The rational sum of the elements of a sequence of Numbers *)
RECURSIVE SumOf(_)
SumOf(x) == IF x = << >> THEN F64(0, 1) ELSE f64_add(Number_as_f64(Head(x)), SumOf(Tail(x)))

(* The rational sum of (x - m)^2 over the elements of a sequence of Numbers *)
RECURSIVE SquaresAbout(_, _)
SquaresAbout(x, m) ==
    IF x = << >> THEN F64(0, 1)
    ELSE LET d == f64_sub(Number_as_f64(Head(x)), m)
         IN f64_add(f64_mul(d, d), SquaresAbout(Tail(x), m))

(* m = (sum of x) / (n - 1) *)
SkewedMean(x) == f64_div(SumOf(x), F64(Len(x) - 1, 1))

(* (sum over x of (x - m)^2) / n *)
SkewedVariance(x) == f64_div(SquaresAbout(x, SkewedMean(x)), F64(Len(x), 1))

(* C23: the variance formula.  For every array of n >= 2 Numbers var       *)
(* returns (sum over x of (x - m)^2) / n with m = (sum of x) / (n - 1),    *)
(* which is m = 3.75 for [1, 2, 3, 4, 5]; if any element is not a Number   *)
(* the aggregate fails with BadType.                                       *)
C23_VarianceFormula ==
    (Called("var") /\ last.x.t = "arr") =>
        /\ (NumberArray(last.x) /\ Len(last.x.v) >= 2) =>
              res = Ok(JFloat(SkewedVariance(last.x.v)))
        /\ ~NumberArray(last.x) => res = Err("BadType")
        /\ last.x = TestArray => SkewedMean(last.x.v) = <<15, 4>>

(* var([1, 2, 3, 4, 5]) is 2.5625, the variance about 3.75 *)
C23_Witness == Called("var") /\ last.x = TestArray /\ res = Ok(JFloat(<<41, 16>>))

-----------------------------------------------------------------------------
(* Pop *)

Evaluated(kind) == pc = "done" /\ last.op = "eval" /\ last.cmd.c = kind

(* Every entry but that of key k is as it was before the evaluation *)
OthersUnchanged(k) ==
    /\ DOMAIN cache \ {k} = DOMAIN last.db \ {k}
    /\ \A j \in DOMAIN cache \ {k} : cache[j] = last.db[j]

(* C24: Pop(k) of a non-empty Array removes and returns its last element,  *)
(* the rest of the array and every other entry unchanged; of an empty      *)
(* Array it returns Null and of an entry that is not an Array it fails     *)
(* with ExpectedArr, the store unchanged; of an absent k it fails with     *)
(* UnknownKey and creates no entry.                                        *)
C24_Pop ==
    Evaluated("Pop") =>
        LET k == last.cmd.k
            old == last.db
        IN /\ OthersUnchanged(k)
           /\ k \notin DOMAIN old => res = ErrUnknownKey(k) /\ cache = old
           /\ (k \in DOMAIN old /\ old[k].t # "arr") =>
                 res = Err("ExpectedArr") /\ cache = old
           /\ (k \in DOMAIN old /\ old[k] = JArr(<< >>)) => res = Ok(JNull) /\ cache = old
           /\ (k \in DOMAIN old /\ old[k].t = "arr" /\ old[k].v # << >>) =>
                 /\ res.kind = "ok"
                 /\ k \in DOMAIN cache
                 /\ cache[k].t = "arr"
                 /\ Append(cache[k].v, res.val) = old[k].v

(* A pop of a table of two or more rows, another entry in the store *)
C24_Witness ==
    /\ Evaluated("Pop")
    /\ last.cmd.k = "t"
    /\ "s" \in DOMAIN cache
    /\ res.kind = "ok"
    /\ cache["t"].t = "arr"
    /\ Len(cache["t"].v) >= 1

-----------------------------------------------------------------------------
(* Errors and the store *)

EvalFailed == pc = "done" /\ last.op = "eval" /\ res.kind = "err"

(* C27: error atomicity.  Whenever InMemDb::eval returns an error for a    *)
(* command tree, also one that nests Set, Append, Pop or Delete in the     *)
(* operands of other nodes, the store is exactly as it was before the      *)
(* evaluation started.                                                     *)
C27_ErrorAtomicity == EvalFailed => cache = last.db

-----------------------------------------------------------------------------
(* Append *)

(* Append(k, v) of a literal v has succeeded *)
Appended == Evaluated("Append") /\ last.cmd.arg.c = "Json" /\ res.kind = "ok"

(* The entry new holds all the data of old and also v: v is the new last   *)
(* element after the elements of an Array old, or after the one element    *)
(* old when old is a scalar or an Object and v is not; new is v itself     *)
(* when the entry was absent or Null; when both are Objects new has every  *)
(* field of either, those of v with the value of v and the others with     *)
(* that of old.                                                            *)
Holds(new, old, v) ==
    CASE old.t = "null" -> new = v
      [] old.t = "arr" -> new = JArr(Append(old.v, v))
      [] old.t = "obj" /\ v.t = "obj" ->
            /\ new.t = "obj"
            /\ DOMAIN new.v = (DOMAIN old.v) \cup (DOMAIN v.v)
            /\ \A f \in DOMAIN v.v : new.v[f] = v.v[f]
            /\ \A f \in (DOMAIN old.v) \ (DOMAIN v.v) : new.v[f] = old.v[f]
      [] OTHER -> new = JArr(<<old, v>>)

(* C28: Append never loses data.  After Append(k, v) succeeds, for every   *)
(* prior content of the entry k (absent, Null, scalar, Array, Object) and  *)
(* every v, the entry still holds all it held before and also holds v, and *)
(* every other entry is unchanged.                                         *)
C28_AppendKeepsData ==
    Appended =>
        LET k == last.cmd.k
        IN /\ OthersUnchanged(k)
           /\ k \in DOMAIN cache
           /\ Holds(cache[k], entry(last.db, k), last.cmd.arg.val)

-----------------------------------------------------------------------------
(* Framing *)

(* C26: codec framing.  For every request or response message the 2-byte   *)
(* big-endian prefix written by encode equals the number of payload bytes  *)
(* that follow it, so decoding the bytes produced by encode returns the    *)
(* same message and consumes exactly the whole frame, for payloads of      *)
(* every length, also those longer than 65535 bytes.                       *)
C26_Framing ==
    /\ last.op = "encode" => read_u16(last.frame) = buf_len(last.frame) - 2
    /\ (last.op = "decode" /\ Len(last.src) = 1 /\ last.src = encode(last.src[1].msg)) =>
          res = Ok(Some(last.src[1].msg)) /\ src = << >>

(* Every message sent so far has a payload of at most 65535 bytes *)
Short == \A i \in 1..Len(sent) : to_string_len(sent[i]) < U16

(* C30: incremental decoding.  When the frames of messages of at most      *)
(* 65535 payload bytes reach the decoder buffer in arbitrary chunks, the   *)
(* decode calls return exactly those messages, in order, each once; a      *)
(* call on a buffer of fewer than 2 bytes, or of fewer than 2 + length     *)
(* bytes, returns None and consumes nothing, and a call that returns a     *)
(* message consumes exactly 2 + length bytes.                              *)
C30_IncrementalDecoding ==
    Short =>
        /\ Len(items) <= Len(sent)
        /\ items = SubSeq(sent, 1, Len(items))
        /\ last.op = "decode" =>
              LET before == buf_len(last.src)
              IN IF res = Ok(None)
                 THEN /\ src = last.src
                      /\ \/ before < 2
                         \/ /\ Len(items) < Len(sent)
                            /\ before < 2 + to_string_len(sent[Len(items) + 1])
                 ELSE /\ res.kind = "ok"
                      /\ res.val.some
                      /\ res.val.v = items[Len(items)]
                      /\ before - buf_len(src) = 2 + to_string_len(res.val.v)
                      /\ src = advance(last.src, 2 + to_string_len(res.val.v))
        /\ (last.op = "decode" /\ res = Ok(None) /\ dst = << >>) => items = sent

(* The first message is decoded, the second has arrived in part: decode    *)
(* is called on a prefix and some bytes of its text                        *)
C30_Witness ==
    /\ Short
    /\ last.op = "decode"
    /\ res = Ok(None)
    /\ Len(items) = 1
    /\ buf_len(src) > 2
    /\ dst # << >>

-----------------------------------------------------------------------------
(* Fork-join aggregation *)

(* C25: fork-join determinism.  Max(Key(k)) evaluated by apply_rows gives  *)
(* the same result however the rows are split among workers and partial    *)
(* results combined: the sequential left-to-right result over the          *)
(* projected values, which is the value json_max returns on the projected  *)
(* array, also when the projected values have mixed types.  (Sum(Key(k))   *)
(* folds with json_add2, which the sources at hand do not hold.)           *)
C25_ForkJoinMax ==
    Called("apply_max") =>
        LET vals == present_fields(last.k, last.x.v)
            sequential == max_fold(None, vals)
        IN /\ res = Ok(IF sequential.some THEN sequential.v ELSE JNull)
           /\ vals # << >> => res = Ok(json_max(JArr(vals)))

-----------------------------------------------------------------------------
(* The two row-scoped evaluators *)

(* C29: the two row-scoped evaluators agree.  For every command tree and   *)
(* every list of rows, apply_rows(cmd, rows) and apply(cmd, Array(rows))   *)
(* return the same outcome: the same value, or both an error of the same   *)
(* kind.                                                                   *)
C29_EvaluatorsAgree == AppliedRows => res = apply(last.cmd, last.x)

====
